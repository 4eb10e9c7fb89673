----------------------------- MODULE MpiProofs ------------------------------
(***************************************************************************)
(* Theorems about matrices scattered over processes, for every number of   *)
(* processes, every extents and every program: rows are dealt once, the    *)
(* processes never all wait for one another, and each has its rows, parts  *)
(* and replicas of what a single process would have computed.              *)
(***************************************************************************)
EXTENDS Mpi, FiniteSetTheorems, WellFoundedInduction, TLAPS

Numbers == INSTANCE LayoutProofs

(***************************************************************************)
(* The rows.                                                               *)
(***************************************************************************)
LEMMA DefaultBlockFacts ==
  ASSUME NEW n \in Nat \ {0}
  PROVE  /\ DefaultBlock(n) \in Nat \ {0}
         /\ n <= DefaultBlock(n) * Processes
<1> DEFINE m == n + Processes - 1
           q == m \div Processes
<1>1. Processes \in Nat \ {0} /\ m \in Nat /\ m >= Processes
  BY ProcessesAssumption
<1>2. q \in Int /\ m = Processes * q + (m % Processes) /\ m % Processes \in 0 .. Processes - 1
  BY <1>1
<1>3. n <= Processes * q
  <2>1. \A t \in Int : m = t + (m % Processes) => n <= t
    BY <1>1, <1>2
  <2>2. Processes * q \in Int
    BY <1>1, <1>2
  <2> QED BY <1>2, <2>1, <2>2
<1> HIDE DEF m, q
<1>4. q > 0
  <2>1. \A i \in Int : i <= 0 => Processes * i <= 0
    BY <1>1
  <2>2. n > 0 /\ n \in Int /\ Processes * q \in Int
    BY <1>1, <1>2
  <2>3. ~ (Processes * q <= 0)
    BY <1>3, <2>2
  <2> QED BY <1>2, <2>1, <2>3
<1>5. q * Processes = Processes * q
  BY <1>1, <1>2
<1>6. DefaultBlock(n) = q
  BY DEF DefaultBlock, m, q
<1> QED BY <1>2, <1>3, <1>4, <1>5, <1>6

(* Whatever the number of rows and of processes, the default blocks deal   *)
(* every row to one process and to no other (distribution.hpp, many).      *)
THEOREM DealtOnce ==
  ASSUME NEW n \in Nat \ {0}, NEW i \in 0 .. n - 1
  PROVE  \E r \in Ranks : /\ i \in Share(n, DefaultBlock(n), r)
                          /\ \A q \in Ranks : i \in Share(n, DefaultBlock(n), q) => q = r
<1> DEFINE b == DefaultBlock(n)
           r == i \div b
<1>1. b \in Nat \ {0} /\ n <= b * Processes /\ i \in Nat /\ Processes \in Nat \ {0}
  BY DefaultBlockFacts, ProcessesAssumption
<1> HIDE DEF b
<1>2. r \in Nat /\ i % b \in 0 .. b - 1 /\ i = b * r + (i % b)
  BY <1>1
<1> HIDE DEF r
<1>3. \A k, l \in Nat : k < l => b * k + b <= b * l
  <2> SUFFICES ASSUME NEW k \in Nat, NEW l \in Nat, k < l
               PROVE  b * k + b <= b * l
    OBVIOUS
  <2>1. l - k - 1 \in Nat
    OBVIOUS
  <2>2. b * (l - k - 1) >= 0
    BY <1>1, <2>1
  <2>3. b * l = b * k + b + b * (l - k - 1)
    BY <1>1
  <2>4. b * k \in Nat /\ b * l \in Nat /\ b * (l - k - 1) \in Int
    BY <1>1, <2>1
  <2> QED BY <1>1, <2>2, <2>3, <2>4
<1>4. /\ b * r \in Nat /\ b * r <= i /\ i < b * r + b
      /\ \A q \in Nat : b * q \in Nat /\ q * b = b * q /\ (q + 1) * b = b * q + b
  BY <1>1, <1>2
<1>5. r < Processes
  <2>1. CASE Processes <= r
    <3>1. b * Processes <= b * r
      BY <1>1, <1>2, <1>3, <1>4, <2>1
    <3> QED BY <1>1, <1>4, <3>1
  <2> QED BY <1>1, <1>2, <2>1
<1>6. ASSUME NEW q \in Nat
      PROVE  i \in Share(n, b, q) <=> b * q <= i /\ i < b * q + b
  <2>1. n \in Nat /\ i < n
    OBVIOUS
  <2>2. i \in Share(n, b, q) <=> Least(n, b * q) <= i /\ i <= Least(n, b * q + b) - 1
    BY <1>1, <1>4 DEF Share, Begins, Least
  <2> QED BY <1>1, <1>4, <2>1, <2>2 DEF Least
<1>7. ASSUME NEW q \in Nat, b * q <= i, i < b * q + b
      PROVE  q = r
  <2>1. CASE q < r
    BY <1>1, <1>2, <1>3, <1>4, <1>7, <2>1
  <2>2. CASE r < q
    BY <1>1, <1>2, <1>3, <1>4, <1>7, <2>2
  <2> QED BY <1>2, <2>1, <2>2
<1>8. r \in Ranks
  BY <1>1, <1>2, <1>5 DEF Ranks
<1>9. \A q \in Ranks : q \in Nat
  BY DEF Ranks
<1> QED BY <1>2, <1>4, <1>6, <1>7, <1>8, <1>9 DEF b

(***************************************************************************)
(* The processes.                                                          *)
(***************************************************************************)
Cells  == 0 .. rows * cols - 1
Fields == {"a", "b", "g", "replica", "answer"}

(* What a process finds in its replica follows from where it is in the     *)
(* program, and so does whether it answers a comparison alone.             *)
ReplicaGone(k) ==
  \E j \in 1 .. k : script[j] = "clear" /\ \A l \in j + 1 .. k : script[l] # "replicate"
Shared(k) == ~ IsLocal(script[k]) /\ ~ (script[k] = "equalWhole" /\ ReplicaGone(k - 1))

TypeInv ==
  /\ extents \in Extents
  /\ script \in Seq(Steps)
  /\ done \in [Ranks -> 0 .. Len(script)]
  /\ inside \in [Ranks -> BOOLEAN]
  /\ DOMAIN sent = 1 .. Len(script)
  /\ \A k \in 1 .. Len(script) : DOMAIN sent[k] = Ranks
  /\ DOMAIN memory = Ranks
  /\ \A p \in Ranks : /\ DOMAIN memory[p] = Fields
                      /\ DOMAIN memory[p].a = Cells
                      /\ DOMAIN memory[p].g = Cells

(* The inductive invariant: whoever is through a collective step that is   *)
(* not answered alone, or inside one, has handed over its part of it.      *)
HandedOver ==
  \A p \in Ranks :
    /\ memory[p].replica = Cleared <=> ReplicaGone(done[p])
    /\ inside[p] => /\ done[p] < Len(script) /\ Shared(done[p] + 1)
                    /\ sent[done[p] + 1][p] # <<>>
    /\ \A k \in 1 .. done[p] : Shared(k) => sent[k][p] # <<>>

MInv == TypeInv /\ HandedOver

(* Matrices have elements: buffers and whole matrices are not the empty    *)
(* sequence that stands for nothing.                                       *)
LEMMA NotEmpty ==
  ASSUME extents \in Extents
  PROVE  /\ Cells # {} /\ Elements # {}
         /\ \A f : DOMAIN f = Cells => f # <<>>
         /\ \A f : DOMAIN f = Elements => f # <<>>
<1>1. rows \in Nat \ {0} /\ cols \in Nat \ {0}
  BY ExtentsAssumption DEF rows, cols
<1>2. rows * cols \in Nat \ {0}
  <2>1. \A x, y \in Nat \ {0} : x * y \in Nat \ {0}
    OBVIOUS
  <2> QED BY <1>1, <2>1
<1>3. 0 \in Cells /\ <<0, 0>> \in Elements
  BY <1>1, <1>2 DEF Cells, Elements
<1>4. DOMAIN <<>> = {}
  OBVIOUS
<1> QED BY <1>3, <1>4

LEMMA InitM == Init => MInv
<1> SUFFICES ASSUME Init PROVE MInv
  OBVIOUS
<1>1. extents \in Extents /\ script \in Seq(Steps) /\ Len(script) \in Nat
  BY ProgramsAssumption DEF Init
<1>2. \A p \in Ranks : done[p] = 0 /\ ~ inside[p]
  BY DEF Init
<1>3. DOMAIN Buffer = Cells /\ \A m : DOMAIN WholeBuffer(m) = Cells
  BY DEF Buffer, WholeBuffer, Cells
<1>4. \A p, m : DOMAIN WithPart(p, Buffer, m) = Cells
  BY <1>3 DEF WithPart
<1>5. ASSUME NEW p \in Ranks
      PROVE  /\ DOMAIN memory[p] = Fields
             /\ DOMAIN memory[p].a = Cells
             /\ DOMAIN memory[p].g = Cells
             /\ memory[p].replica = Start.replica
  BY <1>3, <1>4 DEF Init, Fields
<1>6. Start.replica # Cleared
  <2>1. Start.replica = Numbered(0)
    BY DEF Start
  <2>2. DOMAIN Numbered(0) = Elements
    BY DEF Numbered
  <2> QED BY <1>1, <2>1, <2>2, NotEmpty DEF Cleared
<1>7. TypeInv
  BY <1>1, <1>5 DEF Init, TypeInv
<1>8. ~ ReplicaGone(0)
  BY DEF ReplicaGone
<1>9. HandedOver
  BY <1>2, <1>5, <1>6, <1>8 DEF HandedOver
<1> QED BY <1>7, <1>9 DEF MInv

(* One step further in the program.                                        *)
LEMMA ReplicaStep ==
  ASSUME NEW k \in Nat
  PROVE  ReplicaGone(k + 1) <=>
           \/ script[k + 1] = "clear"
           \/ script[k + 1] # "replicate" /\ ReplicaGone(k)
<1>1. ASSUME script[k + 1] = "clear" PROVE ReplicaGone(k + 1)
  <2>1. k + 1 \in 1 .. k + 1 /\ k + 1 + 1 .. k + 1 = {}
    OBVIOUS
  <2> QED BY <1>1, <2>1 DEF ReplicaGone
<1>2. ASSUME script[k + 1] # "replicate", ReplicaGone(k) PROVE ReplicaGone(k + 1)
  <2>1. PICK j \in 1 .. k : script[j] = "clear" /\ \A l \in j + 1 .. k : script[l] # "replicate"
    BY <1>2 DEF ReplicaGone
  <2>2. j \in 1 .. k + 1 /\ \A l \in j + 1 .. k + 1 : l \in j + 1 .. k \/ l = k + 1
    OBVIOUS
  <2> QED BY <1>2, <2>1, <2>2 DEF ReplicaGone
<1>3. ASSUME ReplicaGone(k + 1), script[k + 1] # "clear"
      PROVE  script[k + 1] # "replicate" /\ ReplicaGone(k)
  <2>1. PICK j \in 1 .. k + 1 : script[j] = "clear" /\ \A l \in j + 1 .. k + 1 : script[l] # "replicate"
    BY <1>3 DEF ReplicaGone
  <2>2. j \in 1 .. k /\ k + 1 \in j + 1 .. k + 1 /\ \A l \in j + 1 .. k : l \in j + 1 .. k + 1
    BY <1>3, <2>1
  <2> QED BY <2>1, <2>2 DEF ReplicaGone
<1> QED BY <1>1, <1>2, <1>3

(* A process that goes on by one step keeps the invariant if it keeps the  *)
(* form of its memory, treats its replica as the step says, and has handed *)
(* over its part if the step is shared.                                    *)
LEMMA ContinueKeeps ==
  ASSUME MInv, NEW p \in Ranks, NEW m, Running(p), Continue(p, m),
         inside' = [inside EXCEPT ![p] = FALSE], sent' = sent,
         DOMAIN m = Fields, DOMAIN m.a = Cells, DOMAIN m.g = Cells,
         m.replica = Cleared <=>
           Step(p) = "clear" \/ (Step(p) # "replicate" /\ memory[p].replica = Cleared),
         Shared(done[p] + 1) => sent[done[p] + 1][p] # <<>>
  PROVE  MInv'
<1>1. /\ memory' = [memory EXCEPT ![p] = m]
      /\ done' = [done EXCEPT ![p] = @ + 1]
      /\ extents' = extents /\ script' = script
  BY DEF Continue
<1>2. /\ Len(script) \in Nat /\ done[p] \in Nat /\ done[p] < Len(script)
      /\ done \in [Ranks -> 0 .. Len(script)] /\ inside \in [Ranks -> BOOLEAN]
      /\ DOMAIN memory = Ranks
  BY DEF MInv, TypeInv, Running
<1>3. /\ \A q \in Ranks : q # p => /\ memory'[q] = memory[q] /\ done'[q] = done[q]
                                   /\ inside'[q] = inside[q]
      /\ memory'[p] = m /\ done'[p] = done[p] + 1 /\ ~ inside'[p]
  BY <1>1, <1>2
<1>4. done' \in [Ranks -> 0 .. Len(script)] /\ inside' \in [Ranks -> BOOLEAN] /\ DOMAIN memory' = Ranks
  BY <1>1, <1>2
<1>5. Cells' = Cells
  BY <1>1 DEF Cells, rows, cols
<1>6. TypeInv'
  BY <1>1, <1>3, <1>4, <1>5 DEF MInv, TypeInv
<1>7. \A k : ReplicaGone(k)' = ReplicaGone(k) /\ Shared(k)' = Shared(k)
  BY <1>1 DEF ReplicaGone, Shared
<1>8. ASSUME NEW q \in Ranks
      PROVE  /\ memory'[q].replica = Cleared <=> ReplicaGone(done'[q])
             /\ inside'[q] => /\ done'[q] < Len(script) /\ Shared(done'[q] + 1)
                              /\ sent[done'[q] + 1][q] # <<>>
             /\ \A k \in 1 .. done'[q] : Shared(k) => sent[k][q] # <<>>
  <2>1. CASE q # p
    BY <1>3, <2>1 DEF MInv, HandedOver
  <2>2. CASE q = p
    <3>1. memory'[p].replica = Cleared <=> ReplicaGone(done'[p])
      BY <1>2, <1>3, ReplicaStep DEF MInv, HandedOver, Step
    <3>2. \A k \in 1 .. done[p] + 1 : k \in 1 .. done[p] \/ k = done[p] + 1
      BY <1>2
    <3>3. \A k \in 1 .. done'[p] : Shared(k) => sent[k][p] # <<>>
      BY <1>3, <3>2 DEF MInv, HandedOver
    <3> QED BY <1>3, <2>2, <3>1, <3>3
  <2> QED BY <2>1, <2>2
<1>9. HandedOver'
  <2>1. \A q \in Ranks : ReplicaGone(done[q])' <=> ReplicaGone(done'[q])
    BY <1>1 DEF ReplicaGone
  <2>2. \A q \in Ranks : Shared(done[q] + 1)' = Shared(done'[q] + 1)
    BY <1>1 DEF Shared, ReplicaGone
  <2>3. \A k : Shared(k)' = Shared(k)
    BY <1>7
  <2> QED BY <1>1, <1>8, <2>1, <2>2, <2>3 DEF HandedOver
<1> QED BY <1>6, <1>9 DEF MInv

LEMMA LocalKeeps ==
  ASSUME MInv, ~ Ragged, NEW p \in Ranks, Local(p)
  PROVE  MInv'
<1> DEFINE m == memory[p]
           k == Locally(p)
<1>1. /\ Running(p) /\ IsLocal(Step(p)) /\ Continue(p, k) /\ sent' = sent /\ inside' = inside
  BY DEF Local
<1>2. DOMAIN m = Fields /\ DOMAIN m.a = Cells /\ DOMAIN m.g = Cells
  BY DEF MInv, TypeInv
<1>3. \A f, x : DOMAIN WithPart(p, f, x) = DOMAIN f
  BY DEF WithPart
<1>4. ~ Shared(done[p] + 1)
  BY <1>1 DEF Shared, Step
<1>5. inside' = [inside EXCEPT ![p] = FALSE]
  <2>1. ~ inside[p] /\ inside \in [Ranks -> BOOLEAN]
    BY <1>4 DEF MInv, TypeInv, HandedOver
  <2> QED BY <1>1, <2>1
<1>6. /\ DOMAIN k = Fields /\ DOMAIN k.a = Cells /\ DOMAIN k.g = Cells
      /\ k.replica = IF Step(p) = "clear" THEN Cleared ELSE m.replica
  <2>1. CASE Step(p) \in {"copy", "restore"}
    <3>1. PICK b : k = [m EXCEPT !.b = b]
      BY <2>1 DEF Locally
    <3> QED BY <1>2, <2>1, <3>1 DEF Fields
  <2>2. CASE Step(p) = "fill"
    <3>1. k = [m EXCEPT !.a = WithPart(p, m.a, Numbered(10))]
      BY <2>2 DEF Locally
    <3> QED BY <1>2, <1>3, <2>2, <3>1 DEF Fields
  <2>3. CASE Step(p) = "writeRoot"
    <3>1. k = m \/ k = [m EXCEPT !.g = [m.g EXCEPT ![(rows - 1) * cols] = 20]]
      BY <2>3 DEF Locally
    <3> QED BY <1>2, <2>3, <3>1 DEF Fields
  <2>4. CASE Step(p) = "clear"
    <3>1. k = [m EXCEPT !.replica = Cleared]
      BY <2>4 DEF Locally
    <3> QED BY <1>2, <2>4, <3>1 DEF Fields
  <2> QED BY <1>1, <2>1, <2>2, <2>3, <2>4 DEF IsLocal
<1>7. Step(p) # "replicate"
  BY <1>1 DEF IsLocal
<1> HIDE DEF k, m
<1> QED BY <1>1, <1>4, <1>5, <1>6, <1>7, ContinueKeeps DEF m

(* The process that returns from a comparison before the others does so    *)
(* where they do, too: all of them have cleared their replica.             *)
LEMMA ReturnEarlyKeeps ==
  ASSUME MInv, NEW p \in Ranks, ReturnEarly(p)
  PROVE  MInv'
<1> DEFINE m == [memory[p] EXCEPT !.answer = FALSE]
<1>1. /\ Running(p) /\ ~ inside[p] /\ AnswersAlone(p) /\ Continue(p, m)
      /\ sent' = sent /\ inside' = inside
  BY DEF ReturnEarly
<1>2. /\ DOMAIN m = Fields /\ DOMAIN m.a = Cells /\ DOMAIN m.g = Cells
      /\ m.replica = memory[p].replica
  BY DEF MInv, TypeInv, Fields
<1>3. inside' = [inside EXCEPT ![p] = FALSE]
  BY <1>1 DEF MInv, TypeInv
<1>4. ~ Shared(done[p] + 1)
  <2>1. ReplicaGone(done[p]) /\ (done[p] + 1) - 1 = done[p]
    BY <1>1 DEF AnswersAlone, MInv, HandedOver, TypeInv
  <2> QED BY <1>1, <2>1 DEF AnswersAlone, Shared, Step
<1>5. Step(p) = "equalWhole"
  BY <1>1 DEF AnswersAlone
<1> HIDE DEF m
<1> QED BY <1>1, <1>2, <1>3, <1>4, <1>5, ContinueKeeps

LEMMA EnterKeeps ==
  ASSUME MInv, NEW p \in Ranks, Enter(p)
  PROVE  MInv'
<1> DEFINE k == done[p] + 1
<1>1. /\ Running(p) /\ ~ inside[p] /\ ~ IsLocal(Step(p)) /\ ~ AnswersAlone(p)
      /\ inside' = [inside EXCEPT ![p] = TRUE]
      /\ sent' = [sent EXCEPT ![k] = [@ EXCEPT ![p] = Handed(p)]]
      /\ UNCHANGED <<extents, script, memory, done>>
  BY DEF Enter
<1>2. /\ Len(script) \in Nat /\ done[p] \in Nat /\ done[p] < Len(script)
      /\ k \in 1 .. Len(script) /\ script[k] \in Steps /\ script[k] = Step(p)
      /\ inside \in [Ranks -> BOOLEAN] /\ done \in [Ranks -> 0 .. Len(script)]
      /\ DOMAIN sent = 1 .. Len(script) /\ DOMAIN sent[k] = Ranks
  BY <1>1 DEF MInv, TypeInv, Running, Step
<1>3. Handed(p) # <<>>
  <2>1. memory[p].a # <<>> /\ memory[p].g # <<>>
    BY NotEmpty DEF MInv, TypeInv
  <2>2. \A x : <<x>> # <<>>
    OBVIOUS
  <2>3. Step(p) \in {"duplicate", "gather", "scatter", "equal", "replicate", "equalWhole", "transform"}
    BY <1>1, <1>2 DEF Steps, IsLocal
  <2>4. \/ Handed(p) = memory[p].a \/ Handed(p) = memory[p].g
        \/ \E x : Handed(p) = <<x>>
    BY <2>3 DEF Handed
  <2> QED BY <2>1, <2>2, <2>4
<1>4. Shared(k)
  <2>1. ~ ReplicaGone(done[p]) \/ script[k] # "equalWhole"
    BY <1>1, <1>2 DEF AnswersAlone, MInv, HandedOver
  <2>2. k - 1 = done[p]
    BY <1>2
  <2> QED BY <1>1, <1>2, <2>1, <2>2 DEF Shared
<1> HIDE DEF k
<1>5. /\ DOMAIN sent' = DOMAIN sent /\ sent'[k][p] = Handed(p)
      /\ \A j \in 1 .. Len(script) : DOMAIN sent'[j] = DOMAIN sent[j]
      /\ \A j \in 1 .. Len(script), q \in Ranks : j # k \/ q # p => sent'[j][q] = sent[j][q]
  BY <1>1, <1>2
<1>6. Cells' = Cells
  BY <1>1 DEF Cells, rows, cols
<1>7. inside' \in [Ranks -> BOOLEAN] /\ \A q \in Ranks : q # p => inside'[q] = inside[q]
  BY <1>1, <1>2
<1>8. TypeInv'
  BY <1>1, <1>5, <1>6, <1>7 DEF MInv, TypeInv
<1>9. \A j : ReplicaGone(j)' = ReplicaGone(j) /\ Shared(j)' = Shared(j)
  BY <1>1 DEF ReplicaGone, Shared
<1>10. \A q \in Ranks : done'[q] = done[q] /\ memory'[q] = memory[q]
                         /\ done[q] \in 0 .. Len(script)
  BY <1>1, <1>2
<1>11. \A q \in Ranks : /\ ReplicaGone(done[q])' <=> ReplicaGone(done[q])
                        /\ Shared(done[q] + 1)' <=> Shared(done[q] + 1)
  BY <1>1 DEF ReplicaGone, Shared, IsLocal
<1>12. \A q \in Ranks, j \in 1 .. Len(script) : sent[j][q] # <<>> => sent'[j][q] # <<>>
  BY <1>3, <1>5
<1>13. ASSUME NEW q \in Ranks
       PROVE  /\ memory'[q].replica = Cleared <=> ReplicaGone(done[q])
              /\ inside'[q] => /\ done[q] < Len(script) /\ Shared(done[q] + 1)
                               /\ sent'[done[q] + 1][q] # <<>>
              /\ \A j \in 1 .. done[q] : Shared(j) => sent'[j][q] # <<>>
  <2>1. memory'[q].replica = Cleared <=> ReplicaGone(done[q])
    BY <1>10 DEF MInv, HandedOver
  <2>2. \A j \in 1 .. done[q] : Shared(j) => sent'[j][q] # <<>>
    <3>1. \A j \in 1 .. done[q] : j \in 1 .. Len(script)
      BY <1>2, <1>10
    <3> QED BY <1>12, <3>1 DEF MInv, HandedOver
  <2>3. CASE q = p
    BY <1>2, <1>3, <1>4, <1>5, <2>1, <2>2, <2>3 DEF k
  <2>4. CASE q # p
    <3>1. ASSUME inside[q]
          PROVE  /\ done[q] < Len(script) /\ Shared(done[q] + 1)
                 /\ sent[done[q] + 1][q] # <<>> /\ done[q] + 1 \in 1 .. Len(script)
      BY <1>2, <1>10, <3>1 DEF MInv, HandedOver
    <3> QED BY <1>7, <1>12, <2>1, <2>2, <2>4, <3>1
  <2> QED BY <2>3, <2>4
<1>14. HandedOver'
  BY <1>1, <1>9, <1>10, <1>11, <1>13 DEF HandedOver
<1> QED BY <1>8, <1>14 DEF MInv

LEMMA LeaveKeeps ==
  ASSUME MInv, NEW p \in Ranks, Leave(p)
  PROVE  MInv'
<1> DEFINE m == memory[p]
           k == Received(p)
<1>1. /\ inside[p] /\ Continue(p, k) /\ sent' = sent
      /\ inside' = [inside EXCEPT ![p] = FALSE]
  BY DEF Leave
<1>2. DOMAIN m = Fields /\ DOMAIN m.a = Cells /\ DOMAIN m.g = Cells
  BY DEF MInv, TypeInv
<1>3. /\ Running(p) /\ Shared(done[p] + 1) /\ sent[done[p] + 1][p] # <<>>
      /\ Step(p) \in Steps /\ ~ IsLocal(Step(p))
  <2>1. done[p] \in Nat /\ done[p] + 1 \in 1 .. Len(script)
    BY <1>1 DEF MInv, TypeInv, HandedOver
  <2> QED BY <1>1, <2>1 DEF MInv, TypeInv, HandedOver, Running, Shared, Step
<1>4. /\ DOMAIN k = Fields /\ DOMAIN k.a = Cells /\ DOMAIN k.g = Cells
      /\ Step(p) # "replicate" => k.replica = m.replica
      /\ Step(p) = "replicate" => k.replica # Cleared
  <2>1. CASE Step(p) \in {"duplicate", "scatter", "transform", "equal", "equalWhole"}
    <3>1. \/ k = m \/ \E x : k = [m EXCEPT !.b = x]
          \/ \E x : k = [m EXCEPT !.answer = x]
      BY <2>1 DEF Received
    <3> QED BY <1>2, <2>1, <3>1 DEF Fields
  <2>2. CASE Step(p) = "gather"
    <3>1. k = [m EXCEPT !.g = Transposed(GatherPlan, sent[done[p] + 1], p, Buffer)]
      BY <2>2 DEF Received
    <3>2. \A t, s : DOMAIN Transposed(t, s, p, Buffer) = Cells
      BY DEF Transposed, Buffer, Cells
    <3> QED BY <1>2, <2>2, <3>1, <3>2 DEF Fields
  <2>3. CASE Step(p) = "replicate"
    <3>1. k = [m EXCEPT !.replica = Assembled(sent[done[p] + 1])]
      BY <2>3 DEF Received
    <3>2. DOMAIN Assembled(sent[done[p] + 1]) = Elements
      BY DEF Assembled
    <3>3. Assembled(sent[done[p] + 1]) # Cleared
      BY <3>2, NotEmpty DEF MInv, TypeInv, Cleared
    <3> QED BY <1>2, <2>3, <3>1, <3>3 DEF Fields
  <2> QED BY <1>3, <2>1, <2>2, <2>3 DEF Steps, IsLocal
<1>5. Step(p) # "clear"
  BY <1>3 DEF IsLocal
<1> HIDE DEF k, m
<1> QED BY <1>1, <1>3, <1>4, <1>5, ContinueKeeps DEF m

LEMMA NextKeeps == ~ Ragged /\ MInv /\ [Next]_vars => MInv'
<1> SUFFICES ASSUME ~ Ragged, MInv, [Next]_vars PROVE MInv'
  OBVIOUS
<1>1. ASSUME NEW p \in Ranks, Advance(p) PROVE MInv'
  BY <1>1, LocalKeeps, ReturnEarlyKeeps, EnterKeeps, LeaveKeeps DEF Advance
<1>2. CASE UNCHANGED vars
  BY <1>2 DEF vars, MInv, TypeInv, HandedOver, Cells, rows, cols, ReplicaGone, Shared
<1> QED BY <1>1, <1>2 DEF Next

(* One of the processes is as far behind as any.                           *)
LEMMA Slowest ==
  ASSUME MInv
  PROVE  \E p \in Ranks : \A q \in Ranks : done[p] <= done[q]
<1> DEFINE T == {done[p] : p \in Ranks}
<1>1. 0 \in Ranks /\ \A p \in Ranks : done[p] \in Nat
  BY ProcessesAssumption DEF Ranks, MInv, TypeInv
<1>2. T \subseteq Nat /\ T # {}
  BY <1>1
<1> HIDE DEF T
<1>3. PICK x \in T : \A y \in T : ~ (<<y, x>> \in OpToRel(<, Nat))
  BY <1>2, NatLessThanWellFounded, WFMin
<1>4. \A y \in T : x <= y
  <2> SUFFICES ASSUME NEW y \in T, y < x PROVE FALSE
    BY <1>2
  <2>1. <<y, x>> \in Nat \X Nat /\ <<y, x>>[1] < <<y, x>>[2]
    BY <1>2
  <2>2. <<y, x>> \in OpToRel(<, Nat)
    BY <2>1, Zenon DEF OpToRel
  <2> QED BY <1>3, <2>2
<1>5. PICK p \in Ranks : x = done[p]
  BY DEF T
<1>6. \A q \in Ranks : done[q] \in T
  BY DEF T
<1> QED BY <1>4, <1>5, <1>6

LEMMA SlowestAdvances == MInv => NoDeadlock
<1> SUFFICES ASSUME MInv, NEW r \in Ranks, Running(r)
             PROVE  \E p \in Ranks : CanAdvance(p)
  BY DEF NoDeadlock
<1>1. PICK p \in Ranks : \A q \in Ranks : done[p] <= done[q]
  BY Slowest
<1>2. /\ Len(script) \in Nat /\ \A q \in Ranks : done[q] \in 0 .. Len(script)
      /\ Running(p)
  BY <1>1 DEF MInv, TypeInv, Running
<1>3. CASE \E q \in Ranks : ~ inside[q] /\ done[q] = done[p]
  BY <1>2, <1>3 DEF CanAdvance, Running
<1>4. CASE \A q \in Ranks : done[q] = done[p] => inside[q]
  <2>1. inside[p] /\ Shared(done[p] + 1)
    BY <1>4 DEF MInv, HandedOver
  <2>2. ASSUME NEW q \in Ranks PROVE sent[done[p] + 1][q] # <<>>
    <3>1. CASE done[q] = done[p]
      BY <1>4, <3>1 DEF MInv, HandedOver
    <3>2. CASE done[q] # done[p]
      <4>1. done[p] + 1 \in 1 .. done[q]
        BY <1>1, <1>2, <3>2
      <4> QED BY <2>1, <4>1 DEF MInv, HandedOver
    <3> QED BY <3>1, <3>2
  <2>3. Needs(p) \subseteq Ranks
    BY DEF Needs, Senders
  <2> QED BY <1>2, <2>2, <2>3 DEF CanAdvance
<1> QED BY <1>3, <1>4

(* The processes never all wait: the slowest of them finds what it needs,  *)
(* because whoever is ahead of it has handed over its part, and nobody     *)
(* returns from a comparison that others wait in (array::operator==).      *)
THEOREM MpiNoDeadlock ==
  ASSUME ~ Ragged
  PROVE  Spec => []NoDeadlock
<1>1. MInv /\ [Next]_vars => MInv'
  BY ~ Ragged, NextKeeps
<1> QED BY <1>1, InitM, SlowestAdvances, PTL DEF Spec

(***************************************************************************)
(* What every process has of the matrices.                                 *)
(***************************************************************************)
(* The numbers of a row and of a column tell an element, and the place of  *)
(* it, from any other.                                                     *)
LEMMA CellFacts ==
  ASSUME extents \in Extents, NEW p \in Ranks, NEW i \in LocalRows(p), NEW j \in 0 .. cols - 1
  PROVE  /\ i \in 0 .. rows - 1 /\ <<i, j>> \in Elements
         /\ Cell(p, i, j) \in Cells
         /\ \A k \in LocalRows(p), l \in 0 .. cols - 1 :
              Cell(p, k, l) = Cell(p, i, j) => k = i /\ l = j
<1> DEFINE first == Begins(rows, DefaultBlock(rows), p)
           next == Begins(rows, DefaultBlock(rows), p + 1)
<1>1. rows \in Nat \ {0} /\ cols \in Nat \ {0} /\ p \in Nat
  BY ExtentsAssumption DEF rows, cols, Ranks
<1>2. first \in Nat /\ next \in Int /\ next <= rows
  <2>1. DefaultBlock(rows) \in Nat \ {0}
    BY <1>1, DefaultBlockFacts
  <2>2. p * DefaultBlock(rows) \in Nat /\ (p + 1) * DefaultBlock(rows) \in Nat
    BY <1>1, <2>1
  <2> QED BY <1>1, <2>2 DEF Begins, Least
<1>3. LocalRows(p) = first .. next - 1
  BY DEF LocalRows, Share
<1>4. \A k, l : Cell(p, k, l) = (k - first) * cols + l
  BY DEF Cell
<1> HIDE DEF first, next
<1>5. \A k \in LocalRows(p) : k - first \in 0 .. rows - 1 /\ k \in 0 .. rows - 1
  BY <1>1, <1>2, <1>3
<1>6. (i - first) * cols + j \in 0 .. rows * cols - 1
  BY <1>1, <1>5, Numbers!MixedRadixBound
<1>7. \A k \in LocalRows(p), l \in 0 .. cols - 1 :
        Cell(p, k, l) = Cell(p, i, j) => k = i /\ l = j
  <2> SUFFICES ASSUME NEW k \in LocalRows(p), NEW l \in 0 .. cols - 1,
                      Cell(p, k, l) = Cell(p, i, j)
               PROVE  k = i /\ l = j
    OBVIOUS
  <2>1. k - first \in Int /\ i - first \in Int
    BY <1>5
  <2>2. (k - first) * cols + l = (i - first) * cols + j
    BY <1>4
  <2> DEFINE x == k - first
             y == i - first
  <2>3. x \in Int /\ y \in Int /\ x * cols + l = y * cols + j
    BY <2>1, <2>2
  <2> HIDE DEF x, y
  <2>4. x = y /\ l = j
    BY ONLY <1>1, <2>3, l \in 0 .. cols - 1, j \in 0 .. cols - 1, Numbers!MixedRadix
  <2>5. k \in Int /\ i \in Int /\ first \in Int
    BY <1>2, <1>5
  <2> QED BY <2>4, <2>5 DEF x, y
<1>8. i \in 0 .. rows - 1
  BY <1>5
<1> QED BY <1>4, <1>6, <1>7, <1>8 DEF Cells, Elements

(* The same in the buffer of a whole matrix.                               *)
LEMMA WholeCells ==
  ASSUME extents \in Extents, NEW i \in 0 .. rows - 1, NEW j \in 0 .. cols - 1
  PROVE  /\ i * cols + j \in Cells
         /\ (i * cols + j) \div cols = i /\ (i * cols + j) % cols = j
<1>1. rows \in Nat \ {0} /\ cols \in Nat \ {0}
  BY ExtentsAssumption DEF rows, cols
<1>2. i * cols + j \in 0 .. rows * cols - 1
  BY <1>1, Numbers!MixedRadixBound
<1> DEFINE c == i * cols + j
<1>3. c \in Nat /\ i \in Int
  BY <1>1, <1>2
<1>4. c = i * cols + j
  OBVIOUS
<1> HIDE DEF c
<1>5. c \div cols \in Int /\ c % cols \in 0 .. cols - 1 /\ c = (c \div cols) * cols + (c % cols)
  BY <1>1, <1>3
<1>6. (c \div cols) * cols + (c % cols) = i * cols + j
  BY <1>4, <1>5
<1>7. c \div cols = i /\ c % cols = j
  BY <1>1, <1>3, <1>5, <1>6, Numbers!MixedRadix
<1> QED BY <1>2, <1>7 DEF c, Cells

LEMMA CellsAreWhole ==
  ASSUME extents \in Extents, NEW c \in Cells
  PROVE  /\ c \div cols \in 0 .. rows - 1 /\ c % cols \in 0 .. cols - 1
         /\ c = (c \div cols) * cols + (c % cols)
<1> DEFINE q == c \div cols
           r == c % cols
<1>1. rows \in Nat \ {0} /\ cols \in Nat \ {0}
  BY ExtentsAssumption DEF rows, cols
<1>2. rows * cols \in Nat
  BY <1>1
<1>3. c \in Nat /\ c < rows * cols
  BY <1>2 DEF Cells
<1>4. q \in Int /\ r \in 0 .. cols - 1 /\ c = q * cols + r
  BY <1>1, <1>3
<1> HIDE DEF q, r
<1>5. q >= 0
  <2>1. ASSUME q <= -1 PROVE FALSE
    <3>1. (q + 1) * cols <= 0
      BY <1>1, <1>4, <2>1
    <3>2. (q + 1) * cols = q * cols + cols /\ q * cols \in Int
      BY <1>1, <1>4
    <3> QED BY <1>1, <1>3, <1>4, <3>1, <3>2
  <2> QED BY <1>4, <2>1
<1>6. q < rows
  <2>1. ASSUME q >= rows PROVE FALSE
    <3>1. (q - rows) * cols >= 0
      BY <1>1, <1>4, <2>1
    <3>2. (q - rows) * cols = q * cols - rows * cols /\ q * cols \in Int
      BY <1>1, <1>4
    <3> QED BY <1>2, <1>3, <1>4, <3>1, <3>2
  <2> QED BY <1>1, <1>4, <2>1
<1> QED BY <1>1, <1>4, <1>5, <1>6 DEF q, r

(* The owner of a row is the process it is dealt to.                       *)
LEMMA OwnerOf ==
  ASSUME extents \in Extents, NEW i \in 0 .. rows - 1
  PROVE  /\ Owner(rows, DefaultBlock(rows), i) \in Ranks
         /\ i \in LocalRows(Owner(rows, DefaultBlock(rows), i))
         /\ \A p \in Ranks : i \in LocalRows(p) => Owner(rows, DefaultBlock(rows), i) = p
<1>1. rows \in Nat \ {0}
  BY ExtentsAssumption DEF rows
<1>2. PICK r \in Ranks : /\ i \in Share(rows, DefaultBlock(rows), r)
                         /\ \A q \in Ranks : i \in Share(rows, DefaultBlock(rows), q) => q = r
  BY <1>1, DealtOnce
<1>3. Owner(rows, DefaultBlock(rows), i) = r
  BY <1>2, Zenon DEF Owner
<1> QED BY <1>2, <1>3 DEF LocalRows

(* Of the columns, in one block, the first process owns all.               *)
LEMMA RootOwnsColumns ==
  ASSUME extents \in Extents
  PROVE  /\ Root \in Ranks
         /\ Share(cols, cols, Root) = 0 .. cols - 1 /\ Begins(cols, cols, Root) = 0
         /\ Cardinality(Share(cols, cols, Root)) = cols
         /\ \A j \in 0 .. cols - 1 : Owner(cols, cols, j) = Root
<1>1. cols \in Nat \ {0} /\ Processes \in Nat \ {0}
  BY ExtentsAssumption, ProcessesAssumption DEF cols
<1>2. Root \in Ranks
  BY <1>1 DEF Root, Ranks
<1>3. Begins(cols, cols, Root) = 0 /\ Begins(cols, cols, Root + 1) = cols
  <2>1. 0 * cols = 0 /\ (0 + 1) * cols = cols
    BY <1>1
  <2> QED BY <1>1, <2>1 DEF Begins, Least, Root
<1>4. Share(cols, cols, Root) = 0 .. cols - 1
  BY <1>3 DEF Share
<1>5. Cardinality(0 .. cols - 1) = cols
  <2>1. 0 \in Int /\ cols - 1 \in Int /\ ~ (0 > cols - 1)
    BY <1>1
  <2>2. Cardinality(0 .. cols - 1) = (cols - 1) - 0 + 1
    BY <2>1, FS_Interval
  <2> QED BY <1>1, <2>2
<1>6. ASSUME NEW q \in Ranks, q # Root PROVE Share(cols, cols, q) = {}
  <2>1. q \in Nat /\ q >= 1
    BY <1>6 DEF Ranks, Root
  <2>2. \A n \in Nat : n >= 1 => n * cols >= cols
    <3>1. ASSUME NEW n \in Nat, n >= 1 PROVE n * cols >= cols
      <4>1. (n - 1) * cols >= 0 /\ (n - 1) * cols = n * cols - cols /\ n * cols \in Int
        BY <1>1, <3>1
      <4> QED BY <1>1, <4>1
    <3> QED BY <3>1
  <2>3. q * cols >= cols /\ (q + 1) * cols >= cols /\ q * cols \in Int /\ (q + 1) * cols \in Int
    BY <1>1, <2>1, <2>2
  <2>4. Begins(cols, cols, q) = cols /\ Begins(cols, cols, q + 1) = cols
    BY <1>1, <2>3 DEF Begins, Least
  <2> QED BY <1>1, <2>4 DEF Share
<1>7. ASSUME NEW j \in 0 .. cols - 1 PROVE Owner(cols, cols, j) = Root
  <2>1. \A q \in Ranks : j \in Share(cols, cols, q) => q = Root
    BY <1>6
  <2> QED BY <1>2, <1>4, <2>1, Zenon DEF Owner
<1> QED BY <1>2, <1>3, <1>4, <1>5, <1>7

(* One place in the buffer of a process after a transposition: what every  *)
(* element that belongs there has, if there is one.                        *)
Reached(t, p, c) ==
  \E i \in 0 .. t.n0 - 1, j \in Share(t.n1, t.block1, p) : OutCell(t, i, j) = c
Brought(t, parts, p, c, v) ==
  \A i \in 0 .. t.n0 - 1, j \in Share(t.n1, t.block1, p) :
    OutCell(t, i, j) = c => parts[Owner(t.n0, t.block0, i)][InCell(t, i, j)] = v

LEMMA TransposedAt ==
  ASSUME NEW t, NEW parts, NEW p, NEW buffer, NEW c \in DOMAIN buffer, NEW v,
         Reached(t, p, c), Brought(t, parts, p, c, v)
  PROVE  Transposed(t, parts, p, buffer)[c] = v
<1> DEFINE moved == {<<OutCell(t, i, j), parts[Owner(t.n0, t.block0, i)][InCell(t, i, j)]>> :
                       i \in 0 .. t.n0 - 1, j \in Share(t.n1, t.block1, p)}
           cells == {m[1] : m \in moved}
<1>1. Transposed(t, parts, p, buffer)
        = [d \in DOMAIN buffer |-> IF d \in cells THEN (CHOOSE m \in moved : m[1] = d)[2] ELSE buffer[d]]
  BY DEF Transposed
<1>2. \A m \in moved : m[1] = c => m[2] = v
  BY DEF Brought
<1>3. \E m \in moved : m[1] = c
  <2>1. PICK i \in 0 .. t.n0 - 1, j \in Share(t.n1, t.block1, p) : OutCell(t, i, j) = c
    BY DEF Reached
  <2> DEFINE m == <<OutCell(t, i, j), parts[Owner(t.n0, t.block0, i)][InCell(t, i, j)]>>
  <2>2. m \in moved
    OBVIOUS
  <2>3. m[1] = c
    BY <2>1
  <2> HIDE DEF m, moved
  <2> QED BY <2>2, <2>3
<1> HIDE DEF moved
<1>4. c \in cells
  BY <1>3
<1>5. (CHOOSE m \in moved : m[1] = c)[2] = v
  BY <1>2, <1>3
<1> QED BY <1>1, <1>4, <1>5

(* The part of a process, and what is written to it.                       *)
HasPart(p, buffer, matrix) == Part(p, buffer) = PartOf(p, matrix)

LEMMA PartIs ==
  ASSUME NEW p \in Ranks, NEW buffer, NEW matrix,
         \A i \in LocalRows(p), j \in 0 .. cols - 1 : buffer[Cell(p, i, j)] = matrix[<<i, j>>]
  PROVE  HasPart(p, buffer, matrix)
<1>1. \A ij \in LocalRows(p) \X (0 .. cols - 1) : buffer[Cell(p, ij[1], ij[2])] = matrix[ij]
  <2> SUFFICES ASSUME NEW ij \in LocalRows(p) \X (0 .. cols - 1)
               PROVE  buffer[Cell(p, ij[1], ij[2])] = matrix[ij]
    OBVIOUS
  <2>1. ij[1] \in LocalRows(p) /\ ij[2] \in 0 .. cols - 1 /\ ij = <<ij[1], ij[2]>>
    OBVIOUS
  <2> QED BY <2>1, Zenon
<1> QED BY <1>1, Zenon DEF HasPart, Part, PartOf

LEMMA PartHas ==
  ASSUME NEW p \in Ranks, NEW buffer, NEW matrix, HasPart(p, buffer, matrix),
         NEW i \in LocalRows(p), NEW j \in 0 .. cols - 1
  PROVE  buffer[Cell(p, i, j)] = matrix[<<i, j>>]
<1>1. <<i, j>> \in LocalRows(p) \X (0 .. cols - 1)
  OBVIOUS
<1>2. Part(p, buffer)[<<i, j>>] = PartOf(p, matrix)[<<i, j>>]
  BY DEF HasPart
<1> QED BY <1>1, <1>2 DEF Part, PartOf

LEMMA WithPartHas ==
  ASSUME extents \in Extents, NEW p \in Ranks, NEW buffer, DOMAIN buffer = Cells, NEW matrix
  PROVE  HasPart(p, WithPart(p, buffer, matrix), matrix)
<1> SUFFICES ASSUME NEW i \in LocalRows(p), NEW j \in 0 .. cols - 1
             PROVE  WithPart(p, buffer, matrix)[Cell(p, i, j)] = matrix[<<i, j>>]
  BY PartIs
<1> DEFINE c == Cell(p, i, j)
           P == LocalRows(p) \X (0 .. cols - 1)
           At(ij) == Cell(p, ij[1], ij[2]) = c
           x == CHOOSE ij \in P : At(ij)
<1>1. c \in Cells
  BY CellFacts
<1>2. <<i, j>> \in P /\ At(<<i, j>>)
  OBVIOUS
<1>3. \A ij \in P : At(ij) => ij = <<i, j>>
  <2> SUFFICES ASSUME NEW ij \in P, At(ij) PROVE ij = <<i, j>>
    OBVIOUS
  <2>1. ij[1] \in LocalRows(p) /\ ij[2] \in 0 .. cols - 1 /\ ij = <<ij[1], ij[2]>>
    OBVIOUS
  <2>2. ij[1] = i /\ ij[2] = j
    BY <2>1, CellFacts
  <2> QED BY <2>1, <2>2
<1>4. WithPart(p, buffer, matrix)[c] = IF \E ij \in P : At(ij) THEN matrix[x] ELSE buffer[c]
  BY <1>1 DEF WithPart
<1> HIDE DEF At, P
<1>5. x = <<i, j>>
  BY <1>2, <1>3
<1> HIDE DEF x
<1> QED BY <1>2, <1>4, <1>5

LEMMA WholeHas ==
  ASSUME extents \in Extents, NEW matrix, NEW i \in 0 .. rows - 1, NEW j \in 0 .. cols - 1
  PROVE  WholeBuffer(matrix)[i * cols + j] = matrix[<<i, j>>]
<1>1. /\ i * cols + j \in Cells
      /\ (i * cols + j) \div cols = i /\ (i * cols + j) % cols = j
  BY WholeCells
<1> DEFINE c == i * cols + j
<1> HIDE DEF c
<1>2. c \in DOMAIN Buffer
  BY <1>1 DEF Buffer, Cells, c
<1>3. WholeBuffer(matrix)[c] = matrix[<<c \div cols, c % cols>>]
  BY <1>2 DEF WholeBuffer
<1> QED BY <1>1, <1>3 DEF c

(* Gathered from processes that have their parts, the matrix is whole.     *)
LEMMA Gathered ==
  ASSUME extents \in Extents, NEW parts, NEW matrix,
         \A q \in Ranks : LocalRows(q) # {} => HasPart(q, parts[q], matrix)
  PROVE  Transposed(GatherPlan, parts, Root, Buffer) = WholeBuffer(matrix)
<1> DEFINE t == GatherPlan
<1>1. /\ t.n0 = rows /\ t.n1 = cols /\ t.block0 = DefaultBlock(rows) /\ t.block1 = cols
      /\ t.in_turned = FALSE /\ t.out_turned = TRUE
  BY DEF GatherPlan, Plan
<1> HIDE DEF t
<1>2. Share(t.n1, t.block1, Root) = 0 .. cols - 1
  BY <1>1, RootOwnsColumns
<1>3. ASSUME NEW i \in 0 .. rows - 1, NEW j \in 0 .. cols - 1
      PROVE  /\ OutCell(t, i, j) = i * cols + j
             /\ parts[Owner(t.n0, t.block0, i)][InCell(t, i, j)] = matrix[<<i, j>>]
  <2>1. OutCell(t, i, j) = i * cols + (j - 0)
    BY <1>1, RootOwnsColumns DEF OutCell
  <2> DEFINE q == Owner(rows, DefaultBlock(rows), i)
  <2>2. q \in Ranks /\ i \in LocalRows(q)
    BY OwnerOf
  <2>3. InCell(t, i, j) = Cell(q, i, j)
    BY <1>1 DEF InCell, Cell
  <2> HIDE DEF q
  <2>4. HasPart(q, parts[q], matrix)
    BY <2>2
  <2>5. parts[q][Cell(q, i, j)] = matrix[<<i, j>>]
    BY <2>2, <2>4, PartHas
  <2>6. j - 0 = j
    OBVIOUS
  <2> QED BY <1>1, <2>1, <2>3, <2>5, <2>6 DEF q
<1>4. ASSUME NEW c \in Cells
      PROVE  Transposed(t, parts, Root, Buffer)[c] = WholeBuffer(matrix)[c]
  <2> DEFINE i == c \div cols
             j == c % cols
  <2>1. i \in 0 .. rows - 1 /\ j \in 0 .. cols - 1 /\ c = i * cols + j
    BY CellsAreWhole
  <2> HIDE DEF i, j
  <2>2. OutCell(t, i, j) = c
    BY <1>3, <2>1
  <2>3. ASSUME NEW k \in 0 .. rows - 1, NEW l \in 0 .. cols - 1, OutCell(t, k, l) = c
        PROVE  parts[Owner(t.n0, t.block0, k)][InCell(t, k, l)] = matrix[<<i, j>>]
    <3>1. k * cols + l = i * cols + j
      BY <1>3, <2>1, <2>3
    <3>2. k = i /\ l = j
      <4>1. /\ (k * cols + l) \div cols = k /\ (k * cols + l) % cols = l
            /\ (i * cols + j) \div cols = i /\ (i * cols + j) % cols = j
        BY <2>1, WholeCells
      <4> QED BY <3>1, <4>1
    <3> QED BY <1>3, <3>2
  <2>4. c \in DOMAIN Buffer
    BY DEF Buffer, Cells
  <2>5. Transposed(t, parts, Root, Buffer)[c] = matrix[<<i, j>>]
    <3>1. Reached(t, Root, c)
      BY <1>1, <1>2, <2>1, <2>2 DEF Reached
    <3>2. Brought(t, parts, Root, c, matrix[<<i, j>>])
      BY <1>1, <1>2, <2>3 DEF Brought
    <3> QED BY ONLY <2>4, <3>1, <3>2, TransposedAt
  <2>6. WholeBuffer(matrix)[i * cols + j] = matrix[<<i, j>>]
    BY <2>1, WholeHas
  <2> QED BY <2>1, <2>5, <2>6
<1>5. /\ Transposed(t, parts, Root, Buffer)
           = [c \in Cells |-> Transposed(t, parts, Root, Buffer)[c]]
      /\ WholeBuffer(matrix) = [c \in Cells |-> WholeBuffer(matrix)[c]]
  BY DEF Transposed, WholeBuffer, Buffer, Cells
<1>6. [c \in Cells |-> Transposed(t, parts, Root, Buffer)[c]] = [c \in Cells |-> WholeBuffer(matrix)[c]]
  BY <1>4
<1> QED BY <1>5, <1>6 DEF t

(* Scattered from the first process, every other has its part of it.       *)
LEMMA Scattered ==
  ASSUME extents \in Extents, NEW p \in Ranks, NEW parts, NEW matrix,
         LocalRows(p) # {} => parts[Root] = WholeBuffer(matrix)
  PROVE  HasPart(p, Transposed(ScatterPlan, parts, p, Buffer), matrix)
<1> SUFFICES ASSUME NEW i \in LocalRows(p), NEW j \in 0 .. cols - 1
             PROVE  Transposed(ScatterPlan, parts, p, Buffer)[Cell(p, i, j)] = matrix[<<i, j>>]
  BY PartIs
<1> DEFINE t == ScatterPlan
<1>1. /\ t.n0 = cols /\ t.n1 = rows /\ t.block0 = cols /\ t.block1 = DefaultBlock(rows)
      /\ t.in_turned = TRUE /\ t.out_turned = FALSE
  BY DEF ScatterPlan, Plan
<1> HIDE DEF t
<1>2. Share(t.n1, t.block1, p) = LocalRows(p)
  BY <1>1 DEF LocalRows
<1>3. ASSUME NEW k \in LocalRows(p), NEW l \in 0 .. cols - 1
      PROVE  /\ OutCell(t, l, k) = Cell(p, k, l)
             /\ parts[Owner(t.n0, t.block0, l)][InCell(t, l, k)] = matrix[<<k, l>>]
  <2>1. k \in 0 .. rows - 1
    BY CellFacts
  <2>2. Owner(rows, DefaultBlock(rows), k) = p
    BY <2>1, OwnerOf
  <2>3. OutCell(t, l, k) = Cell(p, k, l)
    BY <1>1, <2>2 DEF OutCell, Cell
  <2>4. InCell(t, l, k) = k * cols + (l - 0) /\ Owner(t.n0, t.block0, l) = Root
    BY <1>1, RootOwnsColumns DEF InCell
  <2>5. parts[Root][k * cols + l] = matrix[<<k, l>>]
    BY <2>1, WholeHas
  <2>6. l - 0 = l
    OBVIOUS
  <2> QED BY <2>3, <2>4, <2>5, <2>6
<1> DEFINE c == Cell(p, i, j)
<1>4. c \in DOMAIN Buffer
  BY CellFacts DEF Buffer, Cells
<1>5. Reached(t, p, c)
  BY <1>1, <1>2, <1>3 DEF Reached
<1>6. Brought(t, parts, p, c, matrix[<<i, j>>])
  <2> SUFFICES ASSUME NEW l \in 0 .. cols - 1, NEW k \in LocalRows(p), OutCell(t, l, k) = c
               PROVE  parts[Owner(t.n0, t.block0, l)][InCell(t, l, k)] = matrix[<<i, j>>]
    BY <1>1, <1>2 DEF Brought
  <2>1. Cell(p, k, l) = Cell(p, i, j)
    BY <1>3
  <2>2. \A x \in LocalRows(p), y \in 0 .. cols - 1 : Cell(p, x, y) = Cell(p, i, j) => x = i /\ y = j
    BY ONLY extents \in Extents, p \in Ranks, i \in LocalRows(p), j \in 0 .. cols - 1, CellFacts
  <2>3. k = i /\ l = j
    BY <2>1, <2>2
  <2> QED BY <1>3, <2>3
<1> HIDE DEF c
<1>7. Transposed(t, parts, p, Buffer)[c] = matrix[<<i, j>>]
  BY ONLY <1>4, <1>5, <1>6, TransposedAt
<1> QED BY <1>7 DEF c, t

(* Put together from the processes that have rows, the matrix is whole.    *)
IsMatrix(f) == f = [ij \in Elements |-> f[ij]]

LEMMA AssembledIs ==
  ASSUME extents \in Extents, NEW parts, NEW matrix, IsMatrix(matrix),
         \A q \in Ranks : LocalRows(q) # {} => HasPart(q, parts[q], matrix)
  PROVE  Assembled(parts) = matrix
<1>1. ASSUME NEW ij \in Elements
      PROVE  LET q == Owner(rows, DefaultBlock(rows), ij[1])
             IN  parts[q][Cell(q, ij[1], ij[2])] = matrix[ij]
  <2> DEFINE q == Owner(rows, DefaultBlock(rows), ij[1])
  <2>1. ij[1] \in 0 .. rows - 1 /\ ij[2] \in 0 .. cols - 1 /\ ij = <<ij[1], ij[2]>>
    BY DEF Elements
  <2>2. q \in Ranks /\ ij[1] \in LocalRows(q)
    BY <2>1, OwnerOf
  <2> HIDE DEF q
  <2>3. HasPart(q, parts[q], matrix)
    BY <2>2
  <2>4. parts[q][Cell(q, ij[1], ij[2])] = matrix[<<ij[1], ij[2]>>]
    BY <2>1, <2>2, <2>3, PartHas
  <2> QED BY <2>1, <2>4 DEF q
<1>2. Assembled(parts) = [ij \in Elements |-> matrix[ij]]
  BY <1>1, Zenon DEF Assembled
<1> QED BY <1>2 DEF IsMatrix

(* Matrices are equal if they are on every process.                        *)
LEMMA EqualParts ==
  ASSUME extents \in Extents, NEW x, NEW y, IsMatrix(x), IsMatrix(y),
         \A q \in Ranks : PartOf(q, x) = PartOf(q, y)
  PROVE  x = y
<1>1. ASSUME NEW ij \in Elements PROVE x[ij] = y[ij]
  <2> DEFINE q == Owner(rows, DefaultBlock(rows), ij[1])
  <2>1. ij[1] \in 0 .. rows - 1 /\ ij[2] \in 0 .. cols - 1 /\ ij = <<ij[1], ij[2]>>
    BY DEF Elements
  <2>2. q \in Ranks /\ ij[1] \in LocalRows(q)
    BY <2>1, OwnerOf
  <2> HIDE DEF q
  <2>3. ij \in LocalRows(q) \X (0 .. cols - 1)
    BY <2>1, <2>2
  <2>4. PartOf(q, x)[ij] = x[ij] /\ PartOf(q, y)[ij] = y[ij]
    BY <2>3 DEF PartOf
  <2> QED BY <2>2, <2>4
<1>2. [ij \in Elements |-> x[ij]] = [ij \in Elements |-> y[ij]]
  BY <1>1
<1> QED BY <1>2 DEF IsMatrix

(***************************************************************************)
(* The program on one process, step by step.                               *)
(***************************************************************************)
LEMMA RunExists ==
  ASSUME NEW steps \in Seq(Steps)
  PROVE  \E f : f = [k \in 0 .. Len(steps) |-> IF k = 0 THEN Start ELSE Once(steps[k], f[k - 1])]
<1> DEFINE Is(n, f) == f = [k \in 0 .. n |-> IF k = 0 THEN Start ELSE Once(steps[k], f[k - 1])]
           S == {n \in 0 .. Len(steps) : \E f : Is(n, f)}
<1>1. Len(steps) \in Nat
  OBVIOUS
<1>2. 0 \in S
  <2>1. Is(0, [k \in 0 .. 0 |-> Start])
    OBVIOUS
  <2>2. \E f : Is(0, f)
    BY <2>1, Zenon
  <2> HIDE DEF Is
  <2> QED BY <1>1, <2>2
<1>3. ASSUME NEW n \in 0 .. Len(steps) - 1, n \in S PROVE n + 1 \in S
  <2>1. PICK f : Is(n, f)
    BY <1>3
  <2> DEFINE g == [k \in 0 .. n + 1 |-> IF k = n + 1 THEN Once(steps[k], f[n]) ELSE f[k]]
  <2>2. \A k \in 0 .. n : g[k] = f[k]
    BY <1>1
  <2>3. g = [k \in 0 .. n + 1 |-> IF k = 0 THEN Start ELSE Once(steps[k], g[k - 1])]
    <3> SUFFICES ASSUME NEW k \in 0 .. n + 1
                 PROVE  g[k] = IF k = 0 THEN Start ELSE Once(steps[k], g[k - 1])
      BY Zenon
    <3>1. CASE k = n + 1
      <4>1. k - 1 = n /\ k # 0
        BY <3>1, <1>1
      <4>2. g[n] = f[n]
        BY <2>2, <1>1
      <4> QED BY <3>1, <4>1, <4>2
    <3>2. CASE k # n + 1
      <4>1. k \in 0 .. n
        BY <3>2, <1>1
      <4>2. f[k] = IF k = 0 THEN Start ELSE Once(steps[k], f[k - 1])
        BY <2>1, <4>1
      <4>3. k # 0 => k - 1 \in 0 .. n
        BY <4>1, <1>1
      <4> QED BY <2>2, <4>1, <4>2, <4>3
    <3> QED BY <3>1, <3>2
  <2>4. \E h : Is(n + 1, h)
    BY <2>3, Zenon
  <2>5. n + 1 \in 0 .. Len(steps)
    BY <1>1
  <2> HIDE DEF Is
  <2> QED BY <2>4, <2>5
<1> HIDE DEF S
<1>4. \A n \in 0 .. Len(steps) : n \in S
  BY <1>1, <1>2, <1>3, Numbers!InductionTo
<1>5. Len(steps) \in S
  BY <1>1, <1>4
<1> QED BY <1>5, Zenon DEF S

RunsAs(steps, w) ==
  /\ w[0] = Start
  /\ \A k \in 1 .. Len(steps) : w[k] = Once(steps[k], w[k - 1])

LEMMA RunIs ==
  ASSUME NEW steps \in Seq(Steps)
  PROVE  RunsAs(steps, Run(steps))
<1> DEFINE after == CHOOSE f : f = [k \in 0 .. Len(steps) |->
                                     IF k = 0 THEN Start ELSE Once(steps[k], f[k - 1])]
<1>1. after = [k \in 0 .. Len(steps) |-> IF k = 0 THEN Start ELSE Once(steps[k], after[k - 1])]
  BY RunExists, Zenon
<1>2. Run(steps) = after
  BY Zenon DEF Run
<1> HIDE DEF after
<1>3. Len(steps) \in Nat
  OBVIOUS
<1>4. after[0] = Start
  BY <1>1, <1>3
<1>5. ASSUME NEW k \in 1 .. Len(steps) PROVE after[k] = Once(steps[k], after[k - 1])
  BY <1>1, <1>3
<1> QED BY <1>2, <1>4, <1>5 DEF RunsAs

(* The matrices a single process has, and those of its many.               *)
IsWhole(w) ==
  /\ w = [a |-> w.a, b |-> w.b, g |-> w.g, replica |-> w.replica, answer |-> w.answer]
  /\ IsMatrix(w.a) /\ IsMatrix(w.b) /\ IsMatrix(w.g)
  /\ w.replica # Cleared => IsMatrix(w.replica)

Mine(p, m, w) ==
  /\ HasPart(p, m.a, w.a)
  /\ HasPart(p, m.b, w.b)
  /\ p = Root => m.g = WholeBuffer(w.g)
  /\ m.replica = w.replica
  /\ m.answer = w.answer

IsMemory(m) == /\ DOMAIN m = Fields
               /\ DOMAIN m.a = Cells /\ DOMAIN m.b = Cells /\ DOMAIN m.g = Cells

(* What a process hands over in the k-th step is its part of the matrices  *)
(* before that step.                                                       *)
Due(step, q, w, s) ==
  /\ step \in {"gather", "replicate", "transform"} => HasPart(q, s, w.a)
  /\ step = "scatter" /\ q = Root => s = WholeBuffer(w.g)
  /\ step = "equal" => (s = <<TRUE>> <=> PartOf(q, w.a) = PartOf(q, w.b))
  /\ step = "equalWhole" => (s = <<TRUE>> <=> PartOf(q, w.a) = PartOf(q, w.replica))

(* The inductive invariant: what processes have, and what they handed over,*)
(* is what the program on one process says it is at their step.            *)
HaveShares ==
  \A p \in Ranks : /\ IsMemory(memory[p])
                   /\ IsWhole(whole[done[p]])
                   /\ Mine(p, memory[p], whole[done[p]])
SentShares ==
  \A k \in 1 .. Len(script), q \in Ranks :
    sent[k][q] # <<>> => Due(script[k], q, whole[k - 1], sent[k][q])
ScriptRuns ==
  /\ RunsAs(script, whole)
  /\ \A k \in 1 .. Len(script) : script[k] = "restore" => whole[k - 1].replica # Cleared

SharesInv == HaveShares /\ SentShares /\ ScriptRuns

LEMMA SharesAreShares == SharesInv => SharesOfWhole
BY DEF SharesInv, HaveShares, SharesOfWhole, Mine, HasPart

LEMMA OnceWhole ==
  ASSUME extents \in Extents, NEW step \in Steps, NEW w, IsWhole(w),
         step = "restore" => w.replica # Cleared
  PROVE  IsWhole(Once(step, w))
<1> DEFINE v == Once(step, w)
<1>1. \A x : DOMAIN x = Elements /\ x = [ij \in Elements |-> x[ij]] => IsMatrix(x)
  BY DEF IsMatrix
<1>2. \A n : IsMatrix(Numbered(n))
  BY DEF IsMatrix, Numbered
<1>3. \A x : IsMatrix(Transform(x))
  BY DEF IsMatrix, Transform
<1>4. \A x, c : IsMatrix(x) => IsMatrix([x EXCEPT ![c] = 20])
  BY DEF IsMatrix
<1>5. /\ w = [a |-> w.a, b |-> w.b, g |-> w.g, replica |-> w.replica, answer |-> w.answer]
      /\ IsMatrix(w.a) /\ IsMatrix(w.b) /\ IsMatrix(w.g)
      /\ w.replica # Cleared => IsMatrix(w.replica)
  BY DEF IsWhole
<1>6. /\ v = [a |-> v.a, b |-> v.b, g |-> v.g, replica |-> v.replica, answer |-> v.answer]
      /\ v.a = IF step = "fill" THEN Numbered(10) ELSE w.a
      /\ v.b = CASE step = "scatter" -> w.g
                 [] step = "copy" -> w.a
                 [] step = "restore" -> w.replica
                 [] step = "transform" -> Transform(w.a)
                 [] OTHER -> w.b
      /\ v.g = CASE step = "gather" -> w.a
                 [] step = "writeRoot" -> [w.g EXCEPT ![<<rows - 1, 0>>] = 20]
                 [] OTHER -> w.g
      /\ v.replica = CASE step = "replicate" -> w.a
                       [] step = "clear" -> Cleared
                       [] OTHER -> w.replica
  BY <1>5 DEF Once, Steps
<1> HIDE DEF v
<1>7. IsMatrix(v.a) /\ IsMatrix(v.b) /\ IsMatrix(v.g)
  BY SMTT(30), <1>2, <1>3, <1>4, <1>5, <1>6
<1>8. v.replica # Cleared => IsMatrix(v.replica)
  BY <1>5, <1>6
<1> QED BY <1>6, <1>7, <1>8, Zenon DEF IsWhole, v

LEMMA InitShares == Init => SharesInv
<1> SUFFICES ASSUME Init PROVE SharesInv
  OBVIOUS
<1>1. extents \in Extents /\ script \in Seq(Steps) /\ whole = Run(script)
  BY ProgramsAssumption DEF Init
<1>2. RunsAs(script, whole)
  BY <1>1, RunIs
<1>3. ScriptRuns
  <2>1. \A k \in 1 .. Len(script) : k \in DOMAIN script
    BY <1>1
  <2> QED BY <1>2, <2>1 DEF Init, ScriptRuns
<1>4. \A n : IsMatrix(Numbered(n))
  BY DEF IsMatrix, Numbered
<1>5. IsWhole(Start)
  BY <1>4 DEF IsWhole, Start
<1>6. DOMAIN Buffer = Cells /\ (\A m : DOMAIN WholeBuffer(m) = Cells)
  BY DEF Buffer, WholeBuffer, Cells
<1>7. \A p, m : DOMAIN WithPart(p, Buffer, m) = Cells
  BY <1>6 DEF WithPart
<1>8. ASSUME NEW p \in Ranks
      PROVE  IsMemory(memory[p]) /\ Mine(p, memory[p], Start) /\ done[p] = 0
  <2>1. /\ done[p] = 0
        /\ memory[p] = [a       |-> WithPart(p, Buffer, Start.a),
                        b       |-> WithPart(p, Buffer, Start.b),
                        g       |-> IF p = Root THEN WholeBuffer(Start.g) ELSE Buffer,
                        replica |-> Start.replica,
                        answer  |-> Start.answer]
    BY DEF Init
  <2>2. HasPart(p, WithPart(p, Buffer, Start.a), Start.a)
    BY <1>1, <1>6, WithPartHas
  <2>3. HasPart(p, WithPart(p, Buffer, Start.b), Start.b)
    BY <1>1, <1>6, WithPartHas
  <2>4. IsMemory(memory[p])
    BY <1>6, <1>7, <2>1 DEF IsMemory, Fields
  <2>5. Mine(p, memory[p], Start)
    BY <2>1, <2>2, <2>3 DEF Mine
  <2> QED BY <2>1, <2>4, <2>5
<1>9. HaveShares
  BY <1>2, <1>5, <1>8 DEF HaveShares, RunsAs
<1>10. SentShares
  <2>1. \A k \in 1 .. Len(script), q \in Ranks : sent[k][q] = <<>>
    BY DEF Init
  <2> QED BY <2>1, Zenon DEF SentShares
<1> QED BY <1>3, <1>9, <1>10 DEF SharesInv

(***************************************************************************)
(* The program on many, step by step.                                      *)
(***************************************************************************)
(* Where a process is, and what the step it is about to take leads to.     *)
Before(p) == whole[done[p]]
After(p)  == Once(Step(p), Before(p))

LEMMA WholeNext ==
  ASSUME MInv, SharesInv, NEW p \in Ranks, Running(p)
  PROVE  /\ extents \in Extents /\ Step(p) \in Steps
         /\ IsMemory(memory[p]) /\ Mine(p, memory[p], Before(p))
         /\ IsWhole(Before(p)) /\ IsWhole(After(p))
         /\ whole[done[p] + 1] = After(p)
         /\ Step(p) = "restore" => Before(p).replica # Cleared
         /\ done[p] \in Nat /\ done[p] + 1 \in 1 .. Len(script) /\ script[done[p] + 1] = Step(p)
<1>1. /\ done[p] \in Nat /\ Len(script) \in Nat /\ done[p] < Len(script)
      /\ script \in Seq(Steps) /\ extents \in Extents
  BY DEF MInv, TypeInv, Running
<1>2. done[p] + 1 \in 1 .. Len(script) /\ (done[p] + 1) - 1 = done[p]
  BY <1>1
<1>3. Step(p) \in Steps /\ script[done[p] + 1] = Step(p)
  BY <1>1, <1>2 DEF Step
<1>4. whole[done[p] + 1] = After(p)
  BY <1>2 DEF SharesInv, ScriptRuns, RunsAs, After, Before, Step
<1>5. IsMemory(memory[p]) /\ Mine(p, memory[p], Before(p)) /\ IsWhole(Before(p))
  BY DEF SharesInv, HaveShares, Before
<1>6. Step(p) = "restore" => Before(p).replica # Cleared
  BY <1>2 DEF SharesInv, ScriptRuns, Before, Step
<1>7. IsWhole(After(p))
  BY <1>1, <1>3, <1>5, <1>6, OnceWhole DEF After
<1> QED BY <1>1, <1>2, <1>3, <1>4, <1>5, <1>6, <1>7

(* Extents, program and single process never change: the invariant is kept *)
(* if what the processes have and what they have sent is as it says.       *)
LEMMA SharesKept ==
  ASSUME extents' = extents, script' = script, whole' = whole, ScriptRuns,
         \A q \in Ranks : /\ IsMemory(memory'[q])
                          /\ IsWhole(whole[done'[q]])
                          /\ Mine(q, memory'[q], whole[done'[q]]),
         \A k \in 1 .. Len(script), q \in Ranks :
            sent'[k][q] # <<>> => Due(script[k], q, whole[k - 1], sent'[k][q])
  PROVE  SharesInv'
<1>1. extents' = extents /\ script' = script /\ whole' = whole
  OBVIOUS
<1>2. /\ rows' = rows /\ cols' = cols /\ Elements' = Elements /\ Cells' = Cells
      /\ \A q : LocalRows(q)' = LocalRows(q)
      /\ \A q, i, j : Cell(q, i, j)' = Cell(q, i, j)
  BY <1>1 DEF rows, cols, Elements, Cells, LocalRows, Cell
<1>3. \A x, j : Column(x, j)' = Column(x, j)
  <2> DEFINE Over(n, x, j) == FoldLeft(LAMBDA sum, i : sum + x[<<i - 1, j>>], 0, [i \in 1 .. n |-> i])
  <2>1. ASSUME NEW x, NEW j PROVE Column(x, j) = Over(rows, x, j)
    BY Zenon DEF Column
  <2>2. ASSUME NEW x, NEW j PROVE Column(x, j)' = Over(rows', x, j)
    BY Zenon DEF Column, FoldLeft, MapThenFoldSet
  <2> HIDE DEF Over
  <2> QED BY <1>2, <2>1, <2>2
<1>4. \A q \in Ranks : IsMemory(memory[q])' <=> IsMemory(memory'[q])
  BY <1>2 DEF IsMemory
<1>5. \A q \in Ranks : IsWhole(whole[done[q]])' <=> IsWhole(whole[done'[q]])
  BY <1>1, <1>2 DEF IsWhole, IsMatrix
<1>6. \A q \in Ranks : Mine(q, memory[q], whole[done[q]])' <=> Mine(q, memory'[q], whole[done'[q]])
  <2>1. ASSUME NEW q \in Ranks
        PROVE  /\ HasPart(q, memory[q].a, whole[done[q]].a)' <=> HasPart(q, memory'[q].a, whole[done'[q]].a)
               /\ HasPart(q, memory[q].b, whole[done[q]].b)' <=> HasPart(q, memory'[q].b, whole[done'[q]].b)
               /\ WholeBuffer(whole[done[q]].g)' = WholeBuffer(whole[done'[q]].g)
    BY <1>1, <1>2 DEF HasPart, Part, PartOf, WholeBuffer, Buffer
  <2> QED BY <1>1, <2>1 DEF Mine
<1>7. HaveShares'
  BY <1>4, <1>5, <1>6, Zenon DEF HaveShares
<1>8. SentShares'
  <2>1. \A k \in 1 .. Len(script), q \in Ranks :
          Due(script[k], q, whole[k - 1], sent[k][q])'
            <=> Due(script[k], q, whole[k - 1], sent'[k][q])
    <3> SUFFICES ASSUME NEW k \in 1 .. Len(script), NEW q \in Ranks
                 PROVE  Due(script[k], q, whole[k - 1], sent[k][q])'
                          <=> Due(script[k], q, whole[k - 1], sent'[k][q])
      OBVIOUS
    <3>1. HasPart(q, sent[k][q], whole[k - 1].a)' <=> HasPart(q, sent'[k][q], whole[k - 1].a)
      BY <1>1, <1>2 DEF HasPart, Part, PartOf
    <3>2. WholeBuffer(whole[k - 1].g)' = WholeBuffer(whole[k - 1].g)
      BY <1>1, <1>2 DEF WholeBuffer, Buffer
    <3>3. /\ PartOf(q, whole[k - 1].a)' = PartOf(q, whole[k - 1].a)
          /\ PartOf(q, whole[k - 1].b)' = PartOf(q, whole[k - 1].b)
          /\ PartOf(q, whole[k - 1].replica)' = PartOf(q, whole[k - 1].replica)
      BY <1>1, <1>2 DEF PartOf
    <3> QED BY <1>1, <3>1, <3>2, <3>3 DEF Due
  <2> QED BY <1>1, <2>1, Zenon DEF SentShares
<1>9. ScriptRuns'
  <2>1. \A x : Transform(x)' = Transform(x)
    BY <1>2, <1>3 DEF Transform
  <2>2. \A n : Numbered(n)' = Numbered(n)
    BY <1>2 DEF Numbered
  <2>3. Start' = Start
    BY <2>2 DEF Start
  <2>4. ASSUME NEW k \in 1 .. Len(script)
        PROVE  Once(script[k], whole[k - 1])' = Once(script[k], whole[k - 1])
    <3>1. Transform(whole[k - 1].a)' = Transform(whole[k - 1].a)
      <4>1. PICK x : x = whole[k - 1].a
        OBVIOUS
      <4> QED BY <1>1, <1>2, <1>3 DEF Transform
    <3> QED BY <1>1, <1>2, <2>2, <3>1 DEF Once
  <2> QED BY <1>1, <2>3, <2>4 DEF ScriptRuns, RunsAs
<1> QED BY <1>7, <1>8, <1>9 DEF SharesInv

(* A process that goes on with its part of what the step leads to.         *)
LEMMA ContinueShares ==
  ASSUME MInv, SharesInv, NEW p \in Ranks, NEW m, Running(p), Continue(p, m), sent' = sent,
         IsMemory(m), Mine(p, m, After(p))
  PROVE  SharesInv'
<1>1. /\ memory' = [memory EXCEPT ![p] = m]
      /\ done' = [done EXCEPT ![p] = @ + 1]
      /\ extents' = extents /\ script' = script /\ whole' = whole
  BY DEF Continue
<1>2. DOMAIN memory = Ranks /\ DOMAIN done = Ranks
  BY DEF MInv, TypeInv
<1>3. /\ memory'[p] = m /\ done'[p] = done[p] + 1
      /\ \A q \in Ranks : q # p => memory'[q] = memory[q] /\ done'[q] = done[q]
  BY <1>1, <1>2
<1>4. IsWhole(After(p)) /\ whole[done[p] + 1] = After(p)
  BY WholeNext
<1>5. ASSUME NEW q \in Ranks
      PROVE  /\ IsMemory(memory'[q]) /\ IsWhole(whole[done'[q]])
             /\ Mine(q, memory'[q], whole[done'[q]])
  <2>1. CASE q = p
    BY <1>3, <1>4, <2>1
  <2>2. CASE q # p
    BY <1>3, <2>2 DEF SharesInv, HaveShares
  <2> QED BY <2>1, <2>2
<1>6. \A k \in 1 .. Len(script), q \in Ranks :
        sent'[k][q] # <<>> => Due(script[k], q, whole[k - 1], sent'[k][q])
  BY sent' = sent, Zenon DEF SharesInv, SentShares
<1>7. ScriptRuns
  BY DEF SharesInv
<1> QED BY <1>1, <1>5, <1>6, <1>7, SharesKept

(* A step alone leads where it leads on one process.                       *)
LEMMA LocalShares ==
  ASSUME MInv, SharesInv, ~ Ragged, NEW p \in Ranks, Local(p)
  PROVE  SharesInv'
<1> DEFINE m == memory[p]
           k == Locally(p)
           w == Before(p)
           v == After(p)
<1>1. Running(p) /\ IsLocal(Step(p)) /\ Continue(p, k) /\ sent' = sent
  BY DEF Local
<1>2. extents \in Extents /\ IsMemory(m) /\ Mine(p, m, w) /\ IsWhole(w)
  BY <1>1, WholeNext
<1>3. /\ DOMAIN m = Fields /\ DOMAIN m.a = Cells /\ DOMAIN m.b = Cells /\ DOMAIN m.g = Cells
      /\ HasPart(p, m.a, w.a) /\ HasPart(p, m.b, w.b) /\ (p = Root => m.g = WholeBuffer(w.g))
      /\ m.replica = w.replica /\ m.answer = w.answer
      /\ w = [a |-> w.a, b |-> w.b, g |-> w.g, replica |-> w.replica, answer |-> w.answer]
  BY <1>2 DEF IsMemory, Mine, IsWhole
<1>4. \A f, x : DOMAIN WithPart(p, f, x) = DOMAIN f
  BY DEF WithPart
<1>5. v = Once(Step(p), w)
  BY DEF After
<1> HIDE DEF w, v
<1>6. IsMemory(k) /\ Mine(p, k, v)
  <2>1. CASE Step(p) = "copy"
    <3> DEFINE x == [ij \in Elements |->
                       IF ij[1] \in LocalRows(p) THEN m.a[Cell(p, ij[1], ij[2])] ELSE 0]
    <3>1. k = [m EXCEPT !.b = WithPart(p, m.b, x)] /\ v = [w EXCEPT !.b = w.a]
      BY <1>5, <2>1 DEF Locally, Once
    <3>2. HasPart(p, WithPart(p, m.b, x), x)
      BY <1>2, <1>3, WithPartHas
    <3>3. PartOf(p, x) = Part(p, m.a)
      <4>1. ASSUME NEW ij \in LocalRows(p) \X (0 .. cols - 1)
            PROVE  x[ij] = m.a[Cell(p, ij[1], ij[2])]
        <5>1. ij[1] \in LocalRows(p) /\ ij[2] \in 0 .. cols - 1 /\ ij = <<ij[1], ij[2]>>
          OBVIOUS
        <5>2. <<ij[1], ij[2]>> \in Elements
          BY <1>2, <5>1, CellFacts
        <5> QED BY <5>1, <5>2
      <4> HIDE DEF x
      <4> QED BY <4>1, Zenon DEF PartOf, Part
    <3> HIDE DEF x
    <3>4. HasPart(p, WithPart(p, m.b, x), w.a)
      BY <1>3, <3>2, <3>3 DEF HasPart
    <3> QED BY <1>3, <1>4, <3>1, <3>4 DEF IsMemory, Mine, Fields
  <2>2. CASE Step(p) = "restore"
    <3>1. k = [m EXCEPT !.b = WithPart(p, m.b, w.replica)] /\ v = [w EXCEPT !.b = w.replica]
      BY <1>3, <1>5, <2>2 DEF Locally, Once
    <3>2. HasPart(p, WithPart(p, m.b, w.replica), w.replica)
      BY <1>2, <1>3, WithPartHas
    <3> QED BY <1>3, <1>4, <3>1, <3>2 DEF IsMemory, Mine, Fields
  <2>3. CASE Step(p) = "fill"
    <3>1. k = [m EXCEPT !.a = WithPart(p, m.a, Numbered(10))] /\ v = [w EXCEPT !.a = Numbered(10)]
      BY <1>5, <2>3 DEF Locally, Once
    <3>2. HasPart(p, WithPart(p, m.a, Numbered(10)), Numbered(10))
      BY <1>2, <1>3, WithPartHas
    <3> QED BY <1>3, <1>4, <3>1, <3>2 DEF IsMemory, Mine, Fields
  <2>4. CASE Step(p) = "writeRoot"
    <3> DEFINE g == [w.g EXCEPT ![<<rows - 1, 0>>] = 20]
               h == [m.g EXCEPT ![(rows - 1) * cols] = 20]
    <3>1. k = (IF p = Root THEN [m EXCEPT !.g = h] ELSE m) /\ v = [w EXCEPT !.g = g]
      BY <1>5, <2>4 DEF Locally, Once
    <3>2. m.g = WholeBuffer(w.g) => h = WholeBuffer(g)
      <4> SUFFICES ASSUME m.g = WholeBuffer(w.g) PROVE h = WholeBuffer(g)
        OBVIOUS
      <4>1. rows \in Nat \ {0} /\ cols \in Nat \ {0}
        BY <1>2, ExtentsAssumption DEF rows, cols
      <4>2. /\ rows - 1 \in 0 .. rows - 1 /\ 0 \in 0 .. cols - 1
            /\ (rows - 1) * cols + 0 = (rows - 1) * cols
        BY <4>1
      <4>3. /\ ((rows - 1) * cols + 0) \div cols = rows - 1
            /\ ((rows - 1) * cols + 0) % cols = 0
        BY <1>2, <4>2, WholeCells
      <4>4. DOMAIN w.g = Elements
        BY <1>2 DEF IsWhole, IsMatrix
      <4>5. DOMAIN Buffer = Cells
        BY DEF Buffer, Cells
      <4>6. ASSUME NEW c \in Cells PROVE h[c] = g[<<c \div cols, c % cols>>]
        <5>1. /\ c \div cols \in 0 .. rows - 1 /\ c % cols \in 0 .. cols - 1
              /\ c = (c \div cols) * cols + (c % cols)
          BY <1>2, CellsAreWhole
        <5>2. m.g[c] = w.g[<<c \div cols, c % cols>>]
          BY <4>5 DEF WholeBuffer
        <5>3. <<c \div cols, c % cols>> \in Elements
          BY <5>1 DEF Elements
        <5>4. CASE c = (rows - 1) * cols
          <6>1. c \div cols = rows - 1 /\ c % cols = 0
            BY <4>2, <4>3, <5>4
          <6> QED BY <1>3, <4>4, <5>3, <5>4, <6>1
        <5>5. CASE c # (rows - 1) * cols
          <6>1. <<c \div cols, c % cols>> # <<rows - 1, 0>>
            BY <4>2, <5>1, <5>5
          <6> QED BY <1>3, <4>4, <5>2, <5>3, <5>5, <6>1
        <5> QED BY <5>4, <5>5
      <4>7. h = [c \in Cells |-> h[c]]
        BY <1>3
      <4>8. WholeBuffer(g) = [c \in Cells |-> g[<<c \div cols, c % cols>>]]
        BY <4>5 DEF WholeBuffer
      <4> HIDE DEF g, h
      <4> QED BY <4>6, <4>7, <4>8
    <3>3. DOMAIN h = Cells
      BY <1>3
    <3> HIDE DEF g, h
    <3> QED BY <1>3, <3>1, <3>2, <3>3 DEF IsMemory, Mine, Fields
  <2>5. CASE Step(p) = "clear"
    <3>1. k = [m EXCEPT !.replica = Cleared] /\ v = [w EXCEPT !.replica = Cleared]
      BY <1>5, <2>5 DEF Locally, Once
    <3> QED BY <1>3, <3>1 DEF IsMemory, Mine, Fields
  <2> QED BY <1>1, <2>1, <2>2, <2>3, <2>4, <2>5 DEF IsLocal
<1> HIDE DEF k, m
<1> QED BY <1>1, <1>6, ContinueShares DEF v

(* Without elements in the replica, no matrix equals it.                   *)
LEMMA ReturnEarlyShares ==
  ASSUME MInv, SharesInv, NEW p \in Ranks, ReturnEarly(p)
  PROVE  SharesInv'
<1> DEFINE m == memory[p]
           k == [m EXCEPT !.answer = FALSE]
           w == Before(p)
           v == After(p)
<1>1. Running(p) /\ Step(p) = "equalWhole" /\ m.replica = Cleared /\ Continue(p, k) /\ sent' = sent
  BY DEF ReturnEarly, AnswersAlone
<1>2. extents \in Extents /\ IsMemory(m) /\ Mine(p, m, w) /\ IsWhole(w)
  BY <1>1, WholeNext
<1>3. v = [w EXCEPT !.answer = (w.a = w.replica)]
  BY <1>1 DEF After, Once
<1>4. w.replica = Cleared /\ w.a # Cleared
  <2>1. DOMAIN w.a = Elements
    BY <1>2 DEF IsWhole, IsMatrix
  <2> QED BY <1>1, <1>2, <2>1, NotEmpty DEF Mine, Cleared
<1>5. v = [w EXCEPT !.answer = FALSE]
  <2>1. (w.a = w.replica) = FALSE
    BY <1>4
  <2> QED BY <1>3, <2>1
<1>6. IsMemory(k) /\ Mine(p, k, v)
  <2>1. w = [a |-> w.a, b |-> w.b, g |-> w.g, replica |-> w.replica, answer |-> w.answer]
    BY <1>2 DEF IsWhole
  <2> HIDE DEF w, v
  <2> QED BY <1>2, <1>5, <2>1 DEF IsMemory, Mine, Fields
<1> HIDE DEF k, m
<1> QED BY <1>1, <1>6, ContinueShares DEF v

(* What a process hands over is its part of what the step is about.        *)
LEMMA HandedIsDue ==
  ASSUME NEW p \in Ranks, Mine(p, memory[p], Before(p)), ~ IsLocal(Step(p)), Step(p) \in Steps
  PROVE  Due(Step(p), p, Before(p), Handed(p))
<1> DEFINE m == memory[p]
           w == Before(p)
           s == Handed(p)
<1>1. /\ HasPart(p, m.a, w.a) /\ HasPart(p, m.b, w.b) /\ (p = Root => m.g = WholeBuffer(w.g))
      /\ m.replica = w.replica
  BY DEF Mine
<1>2. \A x \in BOOLEAN : <<x>> = <<TRUE>> <=> x
  <2> TAKE x \in BOOLEAN
  <2>1. CASE x = TRUE
    BY <2>1
  <2>2. CASE x = FALSE
    BY <2>2
  <2> QED BY <2>1, <2>2
<1> HIDE DEF w
<1>3. CASE Step(p) \in {"gather", "replicate", "transform"}
  <2>1. s = m.a
    BY <1>3 DEF Handed
  <2> HIDE DEF s
  <2>2. HasPart(p, s, w.a)
    BY <1>1, <2>1
  <2> QED BY <1>3, <2>2 DEF Due, s, w
<1>4. CASE Step(p) = "scatter"
  <2>1. s = m.g
    BY <1>4 DEF Handed
  <2> HIDE DEF s
  <2> QED BY <1>1, <1>4, <2>1 DEF Due, s, w
<1>5. CASE Step(p) = "equal"
  <2>1. s = <<Part(p, m.a) = Part(p, m.b)>>
    BY <1>5 DEF Handed
  <2> DEFINE x == Part(p, m.a) = Part(p, m.b)
  <2>2. x \in BOOLEAN /\ (x <=> PartOf(p, w.a) = PartOf(p, w.b))
    BY <1>1 DEF HasPart
  <2>3. s = <<x>>
    BY <2>1
  <2> HIDE DEF x, s
  <2>4. s = <<TRUE>> <=> PartOf(p, w.a) = PartOf(p, w.b)
    BY <1>2, <2>2, <2>3
  <2> QED BY <1>5, <2>4 DEF Due, s, w
<1>6. CASE Step(p) = "equalWhole"
  <2>1. s = <<Part(p, m.a) = PartOf(p, m.replica)>>
    BY <1>6 DEF Handed
  <2> DEFINE x == Part(p, m.a) = PartOf(p, m.replica)
  <2>2. x \in BOOLEAN /\ (x <=> PartOf(p, w.a) = PartOf(p, w.replica))
    BY <1>1 DEF HasPart
  <2>3. s = <<x>>
    BY <2>1
  <2> HIDE DEF x, s
  <2>4. s = <<TRUE>> <=> PartOf(p, w.a) = PartOf(p, w.replica)
    BY <1>2, <2>2, <2>3
  <2> QED BY <1>6, <2>4 DEF Due, s, w
<1>7. CASE Step(p) = "duplicate"
  BY <1>7 DEF Due
<1> QED BY <1>3, <1>4, <1>5, <1>6, <1>7 DEF Steps, IsLocal

LEMMA EnterShares ==
  ASSUME MInv, SharesInv, NEW p \in Ranks, Enter(p)
  PROVE  SharesInv'
<1> DEFINE k == done[p] + 1
<1>1. /\ Running(p) /\ ~ IsLocal(Step(p))
      /\ sent' = [sent EXCEPT ![k] = [@ EXCEPT ![p] = Handed(p)]]
      /\ extents' = extents /\ script' = script /\ whole' = whole /\ memory' = memory /\ done' = done
  BY DEF Enter
<1>2. /\ Step(p) \in Steps /\ Mine(p, memory[p], Before(p))
      /\ done[p] \in Nat /\ k \in 1 .. Len(script) /\ script[k] = Step(p)
  BY <1>1, WholeNext
<1>3. Due(Step(p), p, Before(p), Handed(p))
  BY <1>1, <1>2, HandedIsDue
<1>4. /\ DOMAIN sent = 1 .. Len(script) /\ DOMAIN sent[k] = Ranks
  BY <1>2 DEF MInv, TypeInv
<1>5. whole[k - 1] = Before(p)
  <2>1. k - 1 = done[p]
    BY <1>2
  <2> QED BY <2>1 DEF Before
<1> HIDE DEF k
<1>6. /\ sent'[k][p] = Handed(p)
      /\ \A j \in 1 .. Len(script), q \in Ranks : j # k \/ q # p => sent'[j][q] = sent[j][q]
  BY <1>1, <1>2, <1>4
<1>7. ASSUME NEW j \in 1 .. Len(script), NEW q \in Ranks, sent'[j][q] # <<>>
      PROVE  Due(script[j], q, whole[j - 1], sent'[j][q])
  <2>1. CASE j = k /\ q = p
    BY <1>2, <1>3, <1>5, <1>6, <2>1
  <2>2. CASE j # k \/ q # p
    <3>1. sent'[j][q] = sent[j][q]
      BY <1>6, <2>2
    <3> QED BY <1>7, <3>1 DEF SharesInv, SentShares
  <2> QED BY <2>1, <2>2
<1>8. \A q \in Ranks : /\ IsMemory(memory'[q]) /\ IsWhole(whole[done'[q]])
                       /\ Mine(q, memory'[q], whole[done'[q]])
  BY <1>1 DEF SharesInv, HaveShares
<1>9. ScriptRuns
  BY DEF SharesInv
<1> QED BY <1>1, <1>7, <1>8, <1>9, SharesKept

(* A process goes on from a collective step with its part of the outcome.  *)
LEMMA LeaveShares ==
  ASSUME MInv, SharesInv, NEW p \in Ranks, Leave(p)
  PROVE  SharesInv'
<1> DEFINE m == memory[p]
           k == Received(p)
           w == Before(p)
           v == After(p)
           parts == sent[done[p] + 1]
<1>1. /\ Continue(p, k) /\ sent' = sent /\ Running(p) /\ ~ IsLocal(Step(p))
      /\ \A q \in Needs(p) : parts[q] # <<>>
  <2>1. inside[p] /\ done[p] < Len(script) /\ Shared(done[p] + 1)
    BY DEF Leave, MInv, HandedOver
  <2> QED BY <2>1 DEF Leave, Running, Shared, Step
<1>2. /\ extents \in Extents /\ IsMemory(m) /\ Mine(p, m, w) /\ IsWhole(w) /\ Step(p) \in Steps
      /\ done[p] \in Nat /\ done[p] + 1 \in 1 .. Len(script) /\ script[done[p] + 1] = Step(p)
  BY <1>1, WholeNext
<1>3. /\ DOMAIN m = Fields /\ DOMAIN m.a = Cells /\ DOMAIN m.b = Cells /\ DOMAIN m.g = Cells
      /\ HasPart(p, m.a, w.a) /\ HasPart(p, m.b, w.b) /\ (p = Root => m.g = WholeBuffer(w.g))
      /\ m.replica = w.replica /\ m.answer = w.answer
      /\ w = [a |-> w.a, b |-> w.b, g |-> w.g, replica |-> w.replica, answer |-> w.answer]
      /\ IsMatrix(w.a) /\ IsMatrix(w.b) /\ (w.replica # Cleared => IsMatrix(w.replica))
  BY <1>2 DEF IsMemory, Mine, IsWhole
<1>4. Needs(p) \subseteq Ranks
  BY DEF Needs, Senders
<1>5. \A q \in Needs(p) : Due(Step(p), q, w, parts[q])
  <2>1. (done[p] + 1) - 1 = done[p]
    BY <1>2
  <2>2. \A q \in Ranks : parts[q] # <<>> => Due(Step(p), q, w, parts[q])
    BY <1>2, <2>1 DEF SharesInv, SentShares, Before
  <2> QED BY <1>1, <1>4, <2>2
<1>6. v = Once(Step(p), w)
  BY DEF After
<1>7. \A f, x : DOMAIN WithPart(p, f, x) = DOMAIN f
  BY DEF WithPart
<1>8. \A t, s : DOMAIN Transposed(t, s, p, Buffer) = Cells
  BY DEF Transposed, Buffer, Cells
<1> HIDE DEF w, v, parts
<1>9. IsMemory(k) /\ Mine(p, k, v)
  <2>1. CASE Step(p) = "duplicate"
    <3>1. k = m /\ v = w
      BY <1>6, <2>1 DEF Received, Once
    <3> QED BY <1>2, <3>1
  <2>2. CASE Step(p) = "gather"
    <3> DEFINE g == Transposed(GatherPlan, parts, p, Buffer)
    <3>1. k = [m EXCEPT !.g = g] /\ v = [w EXCEPT !.g = w.a]
      BY <1>6, <2>2 DEF Received, Once, parts
    <3>2. p = Root => g = WholeBuffer(w.a)
      <4> SUFFICES ASSUME p = Root PROVE g = WholeBuffer(w.a)
        OBVIOUS
      <4>1. Share(cols, cols, Root) # {}
        <5>1. cols \in Nat \ {0}
          BY <1>2, ExtentsAssumption DEF cols
        <5>2. Share(cols, cols, Root) = 0 .. cols - 1 /\ Root \in Ranks
          BY <1>2, RootOwnsColumns
        <5>3. 0 \in 0 .. cols - 1
          BY <5>1
        <5> QED BY <5>2, <5>3
      <4>2. Needs(p) = {q \in Ranks : LocalRows(q) # {}}
        BY <2>2, <4>1 DEF Needs, Senders, GatherPlan, Plan, LocalRows
      <4>3. \A q \in Ranks : LocalRows(q) # {} => HasPart(q, parts[q], w.a)
        BY <1>5, <2>2, <4>2 DEF Due
      <4>4. Transposed(GatherPlan, parts, Root, Buffer) = WholeBuffer(w.a)
        BY <1>2, <4>3, Gathered
      <4> QED BY <4>4
    <3>3. DOMAIN g = Cells
      BY <1>8
    <3> HIDE DEF g
    <3> QED BY <1>3, <3>1, <3>2, <3>3 DEF IsMemory, Mine, Fields
  <2>3. CASE Step(p) = "scatter"
    <3> DEFINE b == Transposed(ScatterPlan, parts, p, Buffer)
    <3>1. k = [m EXCEPT !.b = b] /\ v = [w EXCEPT !.b = w.g]
      BY <1>6, <2>3 DEF Received, Once, parts
    <3>2. LocalRows(p) # {} => parts[Root] = WholeBuffer(w.g)
      <4> SUFFICES ASSUME LocalRows(p) # {} PROVE parts[Root] = WholeBuffer(w.g)
        OBVIOUS
      <4>1. Root \in Ranks /\ Share(cols, cols, Root) # {}
        <5>1. cols \in Nat \ {0}
          BY <1>2, ExtentsAssumption DEF cols
        <5>2. Share(cols, cols, Root) = 0 .. cols - 1 /\ Root \in Ranks
          BY <1>2, RootOwnsColumns
        <5>3. 0 \in 0 .. cols - 1
          BY <5>1
        <5> QED BY <5>2, <5>3
      <4>2. Root \in Needs(p)
        BY <2>3, <4>1 DEF Needs, Senders, ScatterPlan, Plan, LocalRows
      <4> QED BY <1>5, <2>3, <4>2 DEF Due
    <3>3. HasPart(p, b, w.g)
      BY <1>2, <3>2, Scattered
    <3>4. DOMAIN b = Cells
      BY <1>8
    <3> HIDE DEF b
    <3> QED BY <1>3, <3>1, <3>3, <3>4 DEF IsMemory, Mine, Fields
  <2>4. CASE Step(p) = "transform" /\ LocalRows(p) # {}
    <3> DEFINE x == Transform(Assembled(parts))
               b == WithPart(p, m.b, x)
    <3>1. k = [m EXCEPT !.b = b] /\ v = [w EXCEPT !.b = Transform(w.a)]
      BY <1>6, <2>4 DEF Received, Once, parts
    <3>2. Needs(p) = {q \in Ranks : LocalRows(q) # {}}
      BY <2>4 DEF Needs
    <3>3. \A q \in Ranks : LocalRows(q) # {} => HasPart(q, parts[q], w.a)
      BY <1>5, <2>4, <3>2 DEF Due
    <3>4. Assembled(parts) = w.a
      BY <1>2, <1>3, <3>3, AssembledIs
    <3>5. x = Transform(w.a)
      BY <3>4
    <3> HIDE DEF x
    <3>6. HasPart(p, b, x)
      BY <1>2, <1>3, WithPartHas
    <3>7. DOMAIN b = Cells
      BY <1>3, <1>7
    <3> HIDE DEF b
    <3> QED BY <1>3, <3>1, <3>5, <3>6, <3>7 DEF IsMemory, Mine, Fields
  <2>5. CASE Step(p) = "transform" /\ LocalRows(p) = {}
    <3>1. k = m /\ v = [w EXCEPT !.b = Transform(w.a)]
      BY <1>6, <2>5 DEF Received, Once
    <3>2. HasPart(p, m.b, Transform(w.a))
      BY <2>5, PartIs
    <3> QED BY <1>3, <3>1, <3>2 DEF IsMemory, Mine
  <2>6. CASE Step(p) = "replicate"
    <3>1. k = [m EXCEPT !.replica = Assembled(parts)] /\ v = [w EXCEPT !.replica = w.a]
      BY <1>6, <2>6 DEF Received, Once, parts
    <3>2. Needs(p) = {q \in Ranks : LocalRows(q) # {}}
      BY <2>6 DEF Needs
    <3>3. \A q \in Ranks : LocalRows(q) # {} => HasPart(q, parts[q], w.a)
      BY <1>5, <2>6, <3>2 DEF Due
    <3>4. Assembled(parts) = w.a
      BY <1>2, <1>3, <3>3, AssembledIs
    <3> QED BY <1>3, <3>1, <3>4 DEF IsMemory, Mine, Fields
  <2>7. CASE Step(p) = "equal"
    <3> DEFINE x == \A q \in Ranks : parts[q] = <<TRUE>>
    <3>1. k = [m EXCEPT !.answer = x] /\ v = [w EXCEPT !.answer = (w.a = w.b)]
      BY <1>6, <2>7 DEF Received, Once, parts
    <3>2. Needs(p) = Ranks
      BY <2>7 DEF Needs
    <3>3. \A q \in Ranks : parts[q] = <<TRUE>> <=> PartOf(q, w.a) = PartOf(q, w.b)
      BY <1>5, <2>7, <3>2 DEF Due
    <3>4. x <=> w.a = w.b
      BY <1>2, <1>3, <3>3, EqualParts
    <3>5. x = (w.a = w.b)
      BY <3>4
    <3> HIDE DEF x
    <3> QED BY <1>3, <3>1, <3>5 DEF IsMemory, Mine, Fields
  <2>8. CASE Step(p) = "equalWhole"
    <3> DEFINE x == \A q \in Ranks : parts[q] = <<TRUE>>
    <3>1. k = [m EXCEPT !.answer = x] /\ v = [w EXCEPT !.answer = (w.a = w.replica)]
      BY <1>6, <2>8 DEF Received, Once, parts
    <3>2. Needs(p) = Ranks
      BY <2>8 DEF Needs
    <3>3. \A q \in Ranks : parts[q] = <<TRUE>> <=> PartOf(q, w.a) = PartOf(q, w.replica)
      BY <1>5, <2>8, <3>2 DEF Due
    <3>4. w.replica # Cleared
      <4>1. ~ ReplicaGone(done[p])
        <5>1. inside[p] /\ Shared(done[p] + 1) /\ (done[p] + 1) - 1 = done[p]
          BY <1>2 DEF Leave, MInv, HandedOver
        <5> QED BY <1>2, <2>8, <5>1 DEF Shared
      <4> QED BY <1>3, <4>1 DEF MInv, HandedOver
    <3>5. x <=> w.a = w.replica
      BY <1>2, <1>3, <3>3, <3>4, EqualParts
    <3>6. x = (w.a = w.replica)
      BY <3>5
    <3> HIDE DEF x
    <3> QED BY <1>3, <3>1, <3>6 DEF IsMemory, Mine, Fields
  <2> QED BY <1>1, <1>2, <2>1, <2>2, <2>3, <2>4, <2>5, <2>6, <2>7, <2>8 DEF Steps, IsLocal
<1> HIDE DEF k, m
<1> QED BY <1>1, <1>9, ContinueShares DEF v

LEMMA NextShares == ~ Ragged /\ MInv /\ SharesInv /\ [Next]_vars => SharesInv'
<1> SUFFICES ASSUME ~ Ragged, MInv, SharesInv, [Next]_vars PROVE SharesInv'
  OBVIOUS
<1>1. ASSUME NEW p \in Ranks, Advance(p) PROVE SharesInv'
  BY <1>1, LocalShares, ReturnEarlyShares, EnterShares, LeaveShares DEF Advance
<1>2. CASE UNCHANGED vars
  <2>1. /\ extents' = extents /\ script' = script /\ whole' = whole
        /\ memory' = memory /\ done' = done /\ sent' = sent
    BY <1>2 DEF vars
  <2>2. \A q \in Ranks : /\ IsMemory(memory'[q]) /\ IsWhole(whole[done'[q]])
                         /\ Mine(q, memory'[q], whole[done'[q]])
    BY <2>1 DEF SharesInv, HaveShares
  <2>3. \A j \in 1 .. Len(script), q \in Ranks :
          sent'[j][q] # <<>> => Due(script[j], q, whole[j - 1], sent'[j][q])
    BY <2>1 DEF SharesInv, SentShares
  <2> QED BY <2>1, <2>2, <2>3, SharesKept DEF SharesInv
<1> QED BY <1>1, <1>2 DEF Next

(* However far apart the processes are, each has of every matrix the rows  *)
(* it would be dealt if one process had run the program up to where it is, *)
(* the first one all of the gathered matrix, and all of them the same      *)
(* answers (scattered_array, gathered_array and array of mpi.hpp).         *)
THEOREM MpiSharesOfWhole ==
  ASSUME ~ Ragged
  PROVE  Spec => []SharesOfWhole
<1>1. MInv /\ [Next]_vars => MInv'
  BY ~ Ragged, NextKeeps
<1>2. MInv /\ SharesInv /\ [Next]_vars => SharesInv'
  BY ~ Ragged, NextShares
<1> QED BY <1>1, <1>2, InitM, InitShares, SharesAreShares, PTL DEF Spec
=============================================================================
