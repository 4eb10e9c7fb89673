------------------------------- MODULE MCFft -------------------------------
EXTENDS Fft

Sizes123 == {<<3>>, <<2, 3>>, <<3, 1>>, <<1, 2>>, <<2, 2>>, <<2, 3, 2>>, <<3, 1, 2>>, <<2, 2, 2>>, <<1, 3, 2>>}
Four == {<<1, 2, 1, 2>>}
Square == {<<2, 2>>}
OnlyDense == {"dense"}
RotateCalled == {"rotate"}
AllKinds == {"dense", "turned", "padded", "strided"}
AnyByte == BOOLEAN
TrueByte == {TRUE}
Nothing == {}
=============================================================================
