--------------------------- MODULE BackoffProofs ---------------------------
(***************************************************************************)
(* Proofs about ReconnectBackoff, for any base delay, cap and length of a  *)
(* stable session that the assumption on the constants allows.             *)
(*                                                                         *)
(* The inductive invariant accounts for the time since the last attempt:   *)
(* what has passed and what is left of the sleep add up to a base delay,   *)
(* unless the user has asked for the next attempt.  And it ties the code's *)
(* delay, a shift of the count of failures, to the one that doubling would *)
(* make: the two agree from the first failure to the last.                 *)
(***************************************************************************)
EXTENDS ReconnectBackoff, TLAPS

\* What the loop still owes before the next attempt.
Accounted ==
  /\ pc = "top" /\ failures = 0 => exempt \/ since >= Base
  /\ pc = "sleeping" => since + remaining >= Base /\ since + remaining >= due

\* The delay the loop computes is the one that is due.
Agreed == due = IF failures = 0 THEN 0 ELSE Backoff(failures)

BInv == TypeOK /\ DelayCapped /\ Accounted /\ Agreed

LEMMA Constants ==
  /\ Base \in Nat /\ Max \in Nat /\ Stable \in Nat /\ MaxU32 \in Nat /\ Horizon \in Nat
  /\ 1 <= Base /\ Base <= Stable /\ Base <= Max /\ 1 <= MaxU32
  /\ Max <= Horizon /\ Stable <= Horizon
BY BackoffAssumption

\* The delay lies between the base delay and the cap.
LEMMA BackoffRange ==
  ASSUME NEW f \in Nat
  PROVE  Backoff(f) \in Nat /\ Base <= Backoff(f) /\ Backoff(f) <= Max
<1> DEFINE exp == Min(IF f = 0 THEN 0 ELSE f - 1, 16)
           n   == Shift[exp + 1]
<1>1. exp \in 0 .. 16
  BY DEF Min
<1> HIDE DEF exp
<1>2. n \in Nat /\ n >= 1
  BY <1>1 DEF Shift
<1>3. Base \in Nat /\ Max \in Nat /\ Base <= Max
  BY Constants
<1>4. Base * n \in Nat /\ Base * n >= Base
  <2> HIDE DEF n
  <2> QED
    BY <1>2, <1>3
<1>5. Backoff(f) = Min(Base * n, Max)
  BY DEF Backoff, exp
<1> HIDE DEF n
<1> QED
  BY <1>3, <1>4, <1>5 DEF Min

\* Counting failures never overflows.
LEMMA SaturatingRange ==
  ASSUME NEW f \in 0 .. MaxU32
  PROVE  SaturatingSucc(f) \in 1 .. MaxU32
BY Constants DEF SaturatingSucc, Min

\* What one more failure makes of the delay, by shift and by doubling: they
\* agree also where the shift stops and where the count does.
LEMMA BackoffDoubles ==
  ASSUME NEW f \in 0 .. MaxU32
  PROVE  Backoff(SaturatingSucc(f)) = Doubled(IF f = 0 THEN 0 ELSE Backoff(f))
<1> DEFINE D(n) == Base * Shift[n]
<1>1. \A n \in 1 .. 17 : Shift[n] \in Nat /\ Shift[n] >= 1
  BY DEF Shift
<1>2. \A n \in 1 .. 16 : Shift[n + 1] = 2 * Shift[n]
  BY DEF Shift
<1>3. Shift[1] = 1
  BY DEF Shift
<1>4. /\ Base \in Nat /\ Max \in Nat /\ 1 <= Base /\ Base <= Max
      /\ MaxU32 \in Nat /\ 1 <= MaxU32 /\ f \in Nat /\ f <= MaxU32
  BY Constants
<1>5. \A n \in 1 .. 17 : D(n) \in Nat /\ D(n) >= 1
  BY <1>1, <1>4
<1>6. \A n \in 1 .. 16 : D(n + 1) = 2 * D(n)
  BY <1>1, <1>2, <1>4
<1>7. D(1) = Base
  BY <1>3, <1>4
<1>8. \A n \in Nat \ {0} : Backoff(n) = Min(D(Min(n, 17)), Max)
  <2>1. SUFFICES ASSUME NEW n \in Nat \ {0} PROVE Backoff(n) = Min(D(Min(n, 17)), Max)
    OBVIOUS
  <2>2. Min(n - 1, 16) + 1 = Min(n, 17)
    BY DEF Min
  <2> QED
    BY <2>2 DEF Backoff
<1>9. Max <= D(Min(MaxU32, 17))
  BY CapAssumption
<1> HIDE DEF D
<1>10. CASE f = 0
  <2>1. SaturatingSucc(f) = 1 /\ Min(1, 17) = 1
    BY <1>4, <1>10 DEF SaturatingSucc, Min
  <2>2. Backoff(1) = Base
    BY <1>4, <1>7, <1>8, <2>1 DEF Min
  <2> QED
    BY <1>10, <2>1, <2>2 DEF Doubled
<1>11. CASE f # 0 /\ f < MaxU32 /\ f <= 16
  <2>1. SaturatingSucc(f) = f + 1 /\ Min(f + 1, 17) = f + 1 /\ Min(f, 17) = f
    BY <1>4, <1>11 DEF SaturatingSucc, Min
  <2>2. Backoff(f) = Min(D(f), Max) /\ Backoff(f + 1) = Min(2 * D(f), Max)
    BY <1>4, <1>6, <1>8, <1>11, <2>1
  <2>3. D(f) \in Nat /\ D(f) >= 1
    BY <1>4, <1>5, <1>11
  <2> QED
    BY <1>4, <1>11, <2>1, <2>2, <2>3 DEF Doubled, Min
<1>12. CASE f # 0 /\ (f >= 17 \/ f = MaxU32)
  <2>1. SaturatingSucc(f) \in Nat \ {0}
    BY <1>4, <1>12 DEF SaturatingSucc, Min
  <2>2. /\ Min(f, 17) = Min(MaxU32, 17)
        /\ Min(SaturatingSucc(f), 17) = Min(MaxU32, 17)
        /\ Min(MaxU32, 17) \in 1 .. 17
    BY <1>4, <1>12 DEF SaturatingSucc, Min
  <2>3. D(Min(MaxU32, 17)) \in Nat
    BY <1>5, <2>2
  <2>4. Backoff(f) = Max /\ Backoff(SaturatingSucc(f)) = Max
    BY <1>4, <1>8, <1>9, <1>12, <2>1, <2>2, <2>3 DEF Min
  <2> QED
    BY <1>4, <1>12, <2>4 DEF Doubled, Min
<1> QED
  BY <1>4, <1>10, <1>11, <1>12

\* A delay that doubles stays within its range.
LEMMA DoubledRange ==
  ASSUME NEW d \in 0 .. Max
  PROVE  Doubled(d) \in 0 .. Max
BY Constants DEF Doubled, Min

LEMMA InitBInv == Init => BInv
BY Constants DEF Init, BInv, TypeOK, DelayCapped, Accounted, Agreed

LEMMA NextBInv == BInv /\ [Next]_vars => BInv'
<1> SUFFICES ASSUME BInv, [Next]_vars PROVE BInv'
  OBVIOUS
<1> USE DEF BInv, TypeOK, DelayCapped, Accounted, Agreed
<1>0. /\ Base \in Nat /\ 1 <= Base /\ Base <= Stable /\ Stable \in Nat
      /\ Max \in Nat /\ MaxU32 \in Nat /\ Horizon \in Nat
  BY Constants
<1>1. CASE Sleep
  <2>1. PICK jitter \in 0 .. Base - 1 : remaining' = Backoff(failures) + jitter
    BY <1>1 DEF Sleep
  <2>2. /\ Base <= remaining' /\ remaining' < Max + Base /\ remaining' \in Nat
        /\ due <= remaining'
    <3>1. failures \in Nat
      BY <1>0
    <3>2. Backoff(failures) \in Nat /\ Base <= Backoff(failures) /\ Backoff(failures) <= Max
      BY <3>1, BackoffRange
    <3>3. jitter \in Nat /\ jitter < Base
      BY <1>0
    <3> QED
      BY <1>0, <1>1, <2>1, <3>2, <3>3 DEF Sleep
  <2> QED
    BY <1>0, <1>1, <2>2 DEF Sleep
<1>2. CASE Attempt
  <2>1. /\ since' = 0 /\ connected' = 0 /\ pc' = "connecting"
        /\ UNCHANGED <<failures, remaining, commands, due>>
    BY <1>2 DEF Attempt
  <2>2. exempt' \in BOOLEAN
    BY <1>2 DEF Attempt
  <2>3. since' \in 0 .. Horizon /\ connected' \in 0 .. Horizon
    BY <1>0, <2>1
  <2> QED
    BY <2>1, <2>2, <2>3
<1>3. CASE ConnectOk
  BY <1>3 DEF ConnectOk
<1>4. CASE Fail
  <2>1. failures' \in 1 .. MaxU32 /\ due' \in 0 .. Max
    BY <1>4, SaturatingRange, DoubledRange DEF Fail
  <2>2. due' = Backoff(failures')
    BY <1>4, BackoffDoubles DEF Fail
  <2> QED
    BY <1>0, <1>4, <2>1, <2>2 DEF Fail
<1>5. CASE Disconnected
  <2>1. due' \in 0 .. Max
    BY <1>0, <1>5, DoubledRange DEF Disconnected
  <2>2. /\ failures' \in 0 .. MaxU32
        /\ failures' = 0 => since >= Stable
    BY <1>0, <1>5, SaturatingRange DEF Disconnected, NextFailures
  <2>3. due' = IF failures' = 0 THEN 0 ELSE Backoff(failures')
    <3>1. CASE since >= Stable
      BY <1>5, <3>1 DEF Disconnected, NextFailures
    <3>2. CASE ~ (since >= Stable)
      <4>1. failures' = SaturatingSucc(failures) /\ due' = Doubled(due)
        BY <1>5, <3>2 DEF Disconnected, NextFailures
      <4>2. failures' # 0
        BY <4>1, SaturatingRange
      <4> QED
        BY <4>1, <4>2, BackoffDoubles
    <3> QED
      BY <3>1, <3>2
  <2> QED
    BY <1>0, <1>5, <2>1, <2>2, <2>3 DEF Disconnected
<1>6. CASE HandleReconnect
  <2>1. commands' \in Seq({"reconnect", "quit"})
    BY <1>6 DEF HandleReconnect
  <2> QED
    BY <1>0, <1>6, <2>1 DEF HandleReconnect
<1>7. CASE HandleQuit
  <2>1. commands' \in Seq({"reconnect", "quit"})
    BY <1>7 DEF HandleQuit
  <2> QED
    BY <1>7, <2>1 DEF HandleQuit
<1>8. ASSUME NEW command \in {"reconnect", "quit"}, Command(command) PROVE BInv'
  <2>1. commands' \in Seq({"reconnect", "quit"})
    BY <1>8 DEF Command
  <2> QED
    BY <1>8, <2>1 DEF Command
<1>9. CASE Tick
  <2>1. /\ since' \in 0 .. Horizon /\ connected' \in 0 .. Horizon
        /\ pc = "sleeping" => remaining' = remaining - 1 /\ remaining' \in Nat
        /\ pc # "sleeping" => remaining' = remaining
    BY <1>0, <1>9 DEF Tick, Min
  <2>2. pc = "sleeping" => since' + remaining' >= Base /\ since' + remaining' >= due
    BY <1>0, <1>9, <2>1, Constants DEF Tick, Min
  <2> QED
    BY <1>0, <1>9, <2>1, <2>2 DEF Tick
<1>10. CASE Stopped \/ UNCHANGED vars
  BY <1>10 DEF Stopped, vars
<1> QED
  BY <1>1, <1>2, <1>3, <1>4, <1>5, <1>6, <1>7, <1>8, <1>9, <1>10 DEF Next

\* Every variable holds a value of its type, and no delay exceeds its cap.
THEOREM BackoffInvariant == Spec => [](TypeOK /\ DelayCapped)
<1>1. BInv => TypeOK /\ DelayCapped
  BY DEF BInv
<1> QED
  BY <1>1, InitBInv, NextBInv, PTL DEF Spec

\* Every variable of the reconnection loop holds a value of its type; that the
\* counter of failures stays below u32::MAX is the part that could fail.
THEOREM BackoffTypes == Spec => []TypeOK
BY BackoffInvariant, PTL

\* Retries are at least one base delay apart.
THEOREM RetriesAreSpaced == Spec => Spaced
<1>1. BInv /\ [Next]_vars => [Retries => since >= Base]_vars
  <2> SUFFICES ASSUME BInv, Next, Retries PROVE since >= Base
    BY DEF vars
  <2>1. Attempt
    BY DEF Retries, Next, Sleep, ConnectOk, Fail, Disconnected, HandleReconnect,
           HandleQuit, Command, Tick, Stopped, vars
  <2> QED
    BY <2>1, Constants DEF Retries, Attempt, BInv, TypeOK, Accounted
<1> QED
  BY <1>1, InitBInv, NextBInv, PTL DEF Spec, Spaced

\* However many bad attempts there were in a row, and wherever the shift and the
\* count of failures stop, the delay before the next one is what doubling makes.
THEOREM DelaysDouble == Spec => BacksOff
<1>1. BInv /\ [Next]_vars => [Retries => since >= due]_vars
  <2> SUFFICES ASSUME BInv, Next, Retries PROVE since >= due
    BY DEF vars
  <2>1. Attempt
    BY DEF Retries, Next, Sleep, ConnectOk, Fail, Disconnected, HandleReconnect,
           HandleQuit, Command, Tick, Stopped, vars
  <2> QED
    BY <2>1, Constants DEF Retries, Attempt, BInv, TypeOK, Accounted, Agreed
<1> QED
  BY <1>1, InitBInv, NextBInv, PTL DEF Spec, BacksOff

=============================================================================
