---------------------------- MODULE DecryptionTable ----------------------------
(***************************************************************************)
(* The decryption of integers (lib/crypto.go).  An integer m is encrypted  *)
(* as the point m B, and decryption searches for the discrete logarithm.   *)
(* All decryptions of a process share a table of the points searched so    *)
(* far, PointToInt, and continue the search where the last one stopped.    *)
(*                                                                         *)
(* discreteLog holds a mutex from its first access to the table to its     *)
(* last, so that a call is one step.  The point m B is represented by m.   *)
(***************************************************************************)
EXTENDS Integers

CONSTANTS
  MaxHomomorphicInt,  \* 100000 in the code
  Value,              \* integers whose encryptions are decrypted
  Limit               \* arguments of CreateDecryptionTable

ASSUME BoundAssumption ==
  /\ MaxHomomorphicInt \in Nat \ {0}
  /\ Value \subseteq Int
  /\ Limit \subseteq Nat

VARIABLES
  PointToInt,          \* the table, a function from points to integers
  currentGreatestM,    \* the last point of the search
  currentGreatestInt,  \* its discrete logarithm
  last                 \* the last call and what it returned

vars == <<PointToInt, currentGreatestM, currentGreatestInt, last>>

TypeOK ==
  /\ DOMAIN PointToInt \subseteq Int
  /\ \A P \in DOMAIN PointToInt : PointToInt[P] \in Int
  /\ currentGreatestM \in Int
  /\ currentGreatestInt \in 0..MaxHomomorphicInt - 1
  /\ \A call \in last :
       /\ call.op \in {"DecryptInt", "DecryptIntWithNeg", "CreateDecryptionTable"}
       /\ call.value \in Value \cup Limit
       /\ call.result \in Int

-----------------------------------------------------------------------------
(* Mutant of Guess: the base point is added in the first iteration too.    *)
AddedAtOnce(i) ==
  LET start == IF currentGreatestInt = 0 THEN 0 ELSE currentGreatestM
  IN  start + (i - currentGreatestInt) + 1

(* The point of the search at the integer i.                               *)
Guess(i) ==
  LET start == IF currentGreatestInt = 0 THEN 0 ELSE currentGreatestM
  IN  start + (i - currentGreatestInt)

Found(P, checkNeg, i) == Guess(i) = P \/ (checkNeg /\ -i = P)

(* The integers the search goes through: those up to the one it looks for. *)
Searched(P, checkNeg) ==
  {i \in currentGreatestInt..MaxHomomorphicInt - 1 :
     \A j \in currentGreatestInt..i - 1 : ~ Found(P, checkNeg, j)}

(* Mutant of GreatestAfter: the position is one after what was found.      *)
OneTooFar(P, checkNeg) ==
  LET S == Searched(P, checkNeg)
      i == CHOOSE i \in S : \A j \in S : j <= i
  IN  i + 1

GreatestAfter(P, checkNeg) ==
  LET S == Searched(P, checkNeg) IN CHOOSE i \in S : \A j \in S : j <= i

(* What the search puts into the table: the negative integers only if the  *)
(* call asks for them.                                                     *)
Entries(P, checkNeg) ==
  LET pos == {Guess(i) : i \in Searched(P, checkNeg)}
      neg == IF checkNeg THEN {-i : i \in Searched(P, checkNeg)} ELSE {}
      IntOf(Q) == IF Q \in neg THEN Q
                  ELSE currentGreatestInt + (Q - Guess(currentGreatestInt))
  IN  [Q \in pos \cup neg |-> IntOf(Q)]

Outcome(P, checkNeg) ==
  LET i == GreatestAfter(P, checkNeg)
  IN  IF checkNeg /\ -i = P THEN -i
      ELSE IF Guess(i) = P THEN i
      ELSE 0

(* discreteLog of P, called by op.                                         *)
DiscreteLog(op, P, checkNeg) ==
  IF P \in DOMAIN PointToInt
  THEN /\ last' = {[op |-> op, value |-> P, result |-> PointToInt[P]]}
       /\ UNCHANGED <<PointToInt, currentGreatestM, currentGreatestInt>>
  ELSE LET new == Entries(P, checkNeg)
           i == GreatestAfter(P, checkNeg)
       IN  /\ PointToInt' = [Q \in DOMAIN PointToInt \cup DOMAIN new |->
                               IF Q \in DOMAIN new THEN new[Q] ELSE PointToInt[Q]]
           /\ currentGreatestInt' = i
           /\ currentGreatestM' = Guess(i)
           /\ last' = {[op |-> op, value |-> P, result |-> Outcome(P, checkNeg)]}

Init ==
  /\ PointToInt = [Q \in {} |-> 0]
  /\ currentGreatestM = 0
  /\ currentGreatestInt = 0
  /\ last = {}

DecryptInt(m) == DiscreteLog("DecryptInt", m, FALSE)
DecryptIntWithNeg(m) == DiscreteLog("DecryptIntWithNeg", m, TRUE)
CreateDecryptionTable(limit) == DiscreteLog("CreateDecryptionTable", limit, TRUE)

Next ==
  \/ \E m \in Value : DecryptInt(m) \/ DecryptIntWithNeg(m)
  \/ \E limit \in Limit : CreateDecryptionTable(limit)

Spec == Init /\ [][Next]_vars

-----------------------------------------------------------------------------
(* Whatever was decrypted before, the table says of a point its discrete   *)
(* logarithm, and the position of the search belongs to its point: the     *)
(* search keeps the two in different variables and restarts from them.     *)
TableCorrect ==
  /\ \A P \in DOMAIN PointToInt : PointToInt[P] = P
  /\ currentGreatestM = currentGreatestInt

(* Every integer from 0 to the bound decrypts to itself, after any         *)
(* sequence of decryptions, with and without negative integers, of values  *)
(* in and out of range.                                                    *)
NonNegativesDecrypt ==
  \A call \in last :
    call.value \in 0..MaxHomomorphicInt - 1 => call.result = call.value

(* The search leaves no gap behind it: the integers it has passed are in   *)
(* the table, where later calls look for them.                             *)
NoGap ==
  DOMAIN PointToInt # {} => 0..currentGreatestInt \subseteq DOMAIN PointToInt

(* "DecryptIntWithNeg decrypts an integer from an ElGamal cipher text      *)
(* where integer are encoded in the exponent": also a negative one.        *)
NegativesDecrypt ==
  \A call \in last :
    /\ call.op = "DecryptIntWithNeg"
    /\ -MaxHomomorphicInt < call.value /\ call.value < MaxHomomorphicInt
    => call.result = call.value

(* "CreateDecryptionTable generated the lookup table for decryption of all *)
(* the integers in [-limit, limit]".                                       *)
TableCoversLimit ==
  \A call \in last :
    call.op = "CreateDecryptionTable" /\ call.value < MaxHomomorphicInt =>
      -call.value..call.value \subseteq DOMAIN PointToInt
=============================================================================
