------------------------- MODULE SwitchSocket_proof -------------------------
(***************************************************************************)
(* Proofs about the hook that keeps a panel up to date, for any switches   *)
(* and bounds: type correctness, that the panel neither gives its switch   *)
(* up nor pursues it twice (NeverGivesUp), and that an effect whose URL    *)
(* has gone writes into the panel at most once more (OneLateWrite) and     *)
(* comes nearer to its end with each step (OldEffectsWindDown).            *)
(*                                                                         *)
(* All look at one effect at a time, and so does the strengthening:        *)
(* Healthy says that an effect never has two things under way, that one    *)
(* that is not cancelled has something, that a cancelled one has no timer, *)
(* and that an effect that may still see its socket close has not counted  *)
(* three failures.  Spent adds that a late write was the last thing the    *)
(* effect did.                                                             *)
(***************************************************************************)
EXTENDS SwitchSocket, FiniteSetTheorems, TLAPS

Num == Cardinality(DOMAIN effect)

Healthy(e) ==
    /\ e \in Effect
    /\ e.ws # "none" => e.timer = "none" /\ ~e.fetching
    /\ e.timer # "none" => ~e.fetching
    /\ e.ws # "none" \/ e.timer = "retry" => e.failures <= 2
    /\ e.cancelled => e.timer = "none" /\ e.ws \in {"none", "closing"}
    /\ ~e.cancelled => e.ws # "none" \/ e.timer # "none" \/ e.fetching

\* Nothing is under way
AtEnd(e) == e.ws = "none" /\ e.timer = "none" /\ ~e.fetching

Spent(i) ==
    \/ late[i] = 0
    \/ late[i] = 1 /\ effect[i].cancelled /\ AtEnd(effect[i])

Effects ==
    /\ Num \in 1..MaxEffects
    /\ effect \in [1..Num -> Effect]
    /\ late \in [1..Num -> Nat]
    /\ \A i \in 1..Num : Healthy(effect[i]) /\ Spent(i)
    /\ ~effect[Num].cancelled

Panel == [connected : BOOLEAN, transport : {"ws", "poll"},
          shows : Switch \union {Nobody}]

Rest ==
    /\ panel \in Panel
    /\ up \subseteq Switch
    /\ drops \in 0..MaxDrops /\ outages \in 0..MaxOutages

IInv == Effects /\ Rest

-----------------------------------------------------------------------------
(* One effect *)

LEMMA StartedHealthy ==
    ASSUME NEW s \in Switch
    PROVE  Healthy(Started(s)) /\ ~Started(s).cancelled
  BY DEF Started, Healthy, Effect

\* onopen
LEMMA OpenHealthy ==
    ASSUME NEW e, Healthy(e), e.ws = "connecting"
    PROVE  LET f == [e EXCEPT !.ws = "open", !.failures = 0]
           IN  Healthy(f) /\ f.cancelled = e.cancelled
  <1> DEFINE f == [e EXCEPT !.ws = "open", !.failures = 0]
             g == [e EXCEPT !.ws = "open"]
  <1>1. e \in Effect
    BY DEF Healthy
  <1>2. /\ g \in Effect /\ g.ws = "open" /\ g.timer = e.timer /\ g.fetching = e.fetching
        /\ g.cancelled = e.cancelled
    BY <1>1 DEF Effect
  <1>3. f = [g EXCEPT !.failures = 0]
    OBVIOUS
  <1> HIDE DEF g, f
  <1>4. /\ f \in Effect /\ f.ws = "open" /\ f.timer = e.timer /\ f.fetching = e.fetching
        /\ f.cancelled = e.cancelled /\ f.failures = 0
    BY <1>2, <1>3 DEF Effect
  <1>5. Healthy(f)
    BY <1>4 DEF Healthy
  <1>6. QED
    BY <1>4, <1>5 DEF f

\* onmessage
LEMMA ReceiveHealthy ==
    ASSUME NEW e, Healthy(e), e.ws \in {"open", "live"}
    PROVE  LET f == [e EXCEPT !.ws = "live"]
           IN  Healthy(f) /\ f.cancelled = e.cancelled
  BY DEF Healthy, Effect

\* connect, run by the retry timer: an effect with that timer is not cancelled
LEMMA RetryHealthy ==
    ASSUME NEW e, Healthy(e), e.timer = "retry"
    PROVE  Healthy(Connect(e)) /\ Connect(e).cancelled = e.cancelled
  <1> DEFINE g == [e EXCEPT !.timer = "none"]
             f == [g EXCEPT !.ws = "connecting"]
  <1>1. e \in Effect /\ ~e.cancelled /\ ~e.fetching /\ e.failures <= 2
    BY DEF Healthy
  <1>2. /\ g \in Effect /\ g.timer = "none" /\ g.fetching = e.fetching
        /\ g.cancelled = e.cancelled /\ g.failures = e.failures
    BY <1>1 DEF Effect
  <1>3. Connect(e) = f
    BY <1>1 DEF Connect
  <1> HIDE DEF g, f
  <1>4. /\ f \in Effect /\ f.ws = "connecting" /\ f.timer = "none"
        /\ f.fetching = e.fetching /\ f.cancelled = e.cancelled /\ f.failures = e.failures
    BY <1>2 DEF Effect, f
  <1>5. Healthy(f)
    BY <1>1, <1>4 DEF Healthy
  <1>6. QED
    BY <1>3, <1>4, <1>5

\* onclose: on the third failure in a row a fetch, otherwise a timer, unless
\* the effect is cancelled
LEMMA CloseHealthy ==
    ASSUME NEW e, Healthy(e), e.ws # "none"
    PROVE  Healthy(AfterClose(e)) /\ AfterClose(e).cancelled = e.cancelled
  <1> DEFINE third == e.failures >= 2
             e1 == [e EXCEPT !.failures = @ + 1]
             e2 == [e1 EXCEPT !.ws = "none"]
             e3 == [e2 EXCEPT !.fetching = third]
             e4 == [e3 EXCEPT !.timer = IF third \/ e.cancelled THEN "none" ELSE "retry"]
  <1>1. AfterClose(e) = e4
    BY DEF AfterClose
  <1>2. e \in Effect /\ e.failures \in 0..2
    BY DEF Healthy, Effect
  <1>3. e1 \in Effect /\ e1.failures = e.failures + 1 /\ e1.cancelled = e.cancelled
    BY <1>2 DEF Effect
  <1>4. /\ e2 \in Effect /\ e2.failures = e.failures + 1 /\ e2.cancelled = e.cancelled
        /\ e2.ws = "none"
    <2> HIDE DEF e1
    <2> QED BY <1>3 DEF Effect
  <1> DEFINE timer == IF third \/ e.cancelled THEN "none" ELSE "retry"
  <1>5. third \in BOOLEAN /\ timer \in {"none", "retry"}
    OBVIOUS
  <1>6. /\ e3 \in Effect /\ e3.failures = e.failures + 1 /\ e3.cancelled = e.cancelled
        /\ e3.ws = "none" /\ (e3.fetching <=> third)
    <2> HIDE DEF e2, third
    <2> QED BY <1>4, <1>5 DEF Effect
  <1>7. /\ e4 \in Effect /\ e4.failures = e.failures + 1 /\ e4.cancelled = e.cancelled
        /\ e4.ws = "none" /\ (e4.fetching <=> third) /\ e4.timer = timer
    <2> HIDE DEF e3
    <2> QED BY <1>5, <1>6 DEF Effect
  <1> HIDE DEF e4
  <1>8. CASE third
    BY <1>1, <1>2, <1>7, <1>8 DEF Healthy
  <1>9. CASE ~third
    <2>1. e.failures + 1 <= 2
      BY <1>2, <1>9
    <2> QED BY <1>1, <1>7, <1>9, <2>1 DEF Healthy
  <1> QED BY <1>8, <1>9

\* The end and the next round of poll
LEMMA PollHealthy ==
    ASSUME NEW e, Healthy(e)
    PROVE  /\ e.fetching =>
                /\ Healthy(Polled(e)) /\ Polled(e).cancelled = e.cancelled
                /\ e.cancelled => AtEnd(Polled(e))
           /\ e.timer = "poll" =>
                LET f == [e EXCEPT !.timer = "none", !.fetching = TRUE]
                IN  Healthy(f) /\ f.cancelled = e.cancelled
  BY DEF Healthy, Effect, Polled, AtEnd

\* The cleanup of the effect
LEMMA CancelHealthy ==
    ASSUME NEW e, Healthy(e)
    PROVE  /\ Healthy(Cancel(e)) /\ Cancel(e).cancelled
           /\ AtEnd(e) => AtEnd(Cancel(e))
  BY DEF Healthy, Effect, Cancel, AtEnd

\* An effect that has something under way and no more than one thing
LEMMA OneUnderWay ==
    ASSUME NEW e, Healthy(e), ~e.cancelled
    PROVE  Cardinality(UnderWay(e)) = 1
  <1>1. \/ UnderWay(e) = {"socket"}
        \/ UnderWay(e) = {"timer"}
        \/ UnderWay(e) = {"fetch"}
    BY DEF Healthy, UnderWay
  <1> QED BY <1>1, FS_Singleton

-----------------------------------------------------------------------------
(* One step *)

LEMMA Domains == IInv => /\ DOMAIN effect = 1..Num
                         /\ DOMAIN late = 1..Num
                         /\ Num \in 1..Num
                         /\ Current = effect[Num]
  BY BoundAssumption DEF IInv, Effects, Num, Current

\* Something happens to one effect that has something under way.  A write of a
\* cancelled one is counted, and must be its last.
LEMMA Updated ==
    ASSUME IInv, NEW i \in DOMAIN effect, NEW f,
           ~AtEnd(effect[i]), Healthy(f), f.cancelled = effect[i].cancelled,
           effect' = [effect EXCEPT ![i] = f],
           \/ late' = late
           \/ /\ f.cancelled /\ AtEnd(f)
              /\ late' = [late EXCEPT ![i] = @ + 1]
    PROVE  Effects'
  <1>1. /\ DOMAIN effect = 1..Num /\ Num \in 1..Num /\ Num \in 1..MaxEffects
        /\ effect \in [1..Num -> Effect] /\ late \in [1..Num -> Nat]
        /\ \A j \in 1..Num : Healthy(effect[j]) /\ Spent(j)
        /\ ~effect[Num].cancelled
    BY Domains DEF IInv, Effects
  <1>2. f \in Effect
    BY DEF Healthy
  <1>3. effect' \in [1..Num -> Effect] /\ Num' = Num
    BY <1>1, <1>2 DEF Num
  <1>4. late[i] = 0
    BY <1>1 DEF Spent
  <1>5. /\ late' \in [1..Num -> Nat]
        /\ \A j \in 1..Num : j # i => late'[j] = late[j]
        /\ late'[i] = 0 \/ (late'[i] = 1 /\ f.cancelled /\ AtEnd(f))
    BY <1>1, <1>4
  <1>6. effect'[i] = f /\ \A j \in 1..Num : j # i => effect'[j] = effect[j]
    BY <1>1
  <1>7. \A j \in 1..Num : Healthy(effect'[j]) /\ Spent(j)'
    BY <1>1, <1>5, <1>6 DEF Spent
  <1>8. ~effect'[Num].cancelled
    BY <1>1, <1>6
  <1> QED
    BY <1>1, <1>3, <1>5, <1>7, <1>8 DEF Effects

\* Another URL: the effects so far are cancelled, and one more begins
LEMMA ChangeUrlIInv == IInv /\ ChangeUrl => IInv'
  <1> SUFFICES ASSUME IInv, ChangeUrl
               PROVE  IInv'
    OBVIOUS
  <1>1. /\ DOMAIN effect = 1..Num /\ Num \in 1..MaxEffects
        /\ late \in [1..Num -> Nat]
        /\ \A j \in 1..Num : Healthy(effect[j]) /\ Spent(j)
    BY Domains DEF IInv, Effects
  <1>2. PICK s \in Switch :
            effect' = [i \in 1..(Num + 1) |->
                          IF i <= Num THEN Cancel(effect[i]) ELSE Started(s)]
    BY DEF ChangeUrl, Num
  <1>3. /\ late' = [i \in 1..(Num + 1) |-> IF i <= Num THEN late[i] ELSE 0]
        /\ Num < MaxEffects
        /\ UNCHANGED <<panel, up, drops, outages>>
    BY DEF ChangeUrl, Num
  <1>4. DOMAIN effect' = 1..(Num + 1) /\ Num' = Num + 1
    <2>1. DOMAIN effect' = 1..(Num + 1)
      BY <1>2
    <2>2. Cardinality(1..(Num + 1)) = Num + 1
      BY <1>1, FS_Interval, BoundAssumption
    <2> QED BY <2>1, <2>2 DEF Num
  <1>5. Num \in Nat /\ Num + 1 \in 1..MaxEffects
    BY <1>1, <1>3, BoundAssumption
  <1>6. ASSUME NEW j \in 1..(Num + 1)
        PROVE  /\ Healthy(effect'[j]) /\ Spent(j)' /\ late'[j] \in Nat
               /\ j = Num + 1 => ~effect'[j].cancelled
    <2>1. CASE j <= Num
      <3>1. j \in 1..Num /\ effect'[j] = Cancel(effect[j]) /\ late'[j] = late[j]
        BY <1>2, <1>3, <1>5, <2>1
      <3>2. /\ Healthy(Cancel(effect[j])) /\ Cancel(effect[j]).cancelled
            /\ AtEnd(effect[j]) => AtEnd(Cancel(effect[j]))
        BY <1>1, <3>1, CancelHealthy
      <3> QED BY <1>1, <1>5, <2>1, <3>1, <3>2 DEF Spent
    <2>2. CASE ~(j <= Num)
      <3>1. effect'[j] = Started(s) /\ late'[j] = 0
        BY <1>2, <1>3, <2>2
      <3> QED BY <3>1, StartedHealthy DEF Spent
    <2> QED BY <2>1, <2>2
  <1>7. effect' \in [1..(Num + 1) -> Effect]
    <2>1. \A j \in 1..(Num + 1) : effect'[j] \in Effect
      BY <1>6 DEF Healthy
    <2> QED BY <1>2, <2>1
  <1>8. late' \in [1..(Num + 1) -> Nat]
    BY <1>3, <1>6
  <1>9. Num + 1 \in 1..(Num + 1)
    BY <1>5
  <1>10. Effects'
    BY <1>4, <1>5, <1>6, <1>7, <1>8, <1>9 DEF Effects
  <1> QED
    BY <1>3, <1>10 DEF IInv, Rest

LEMMA PanelType ==
    /\ \A p \in Panel : [p EXCEPT !.connected = FALSE] \in Panel
    /\ \A p \in Panel : [p EXCEPT !.connected = TRUE, !.transport = "ws"] \in Panel
    /\ \A p \in Panel, s \in Switch :
          /\ [p EXCEPT !.shows = s] \in Panel
          /\ [connected |-> TRUE, transport |-> "poll", shows |-> s] \in Panel
  BY DEF Panel

\* What the browser does to one effect, and what the network does
LEMMA EffectIInv ==
    ASSUME IInv, NEW i \in DOMAIN effect, Browser(i) \/ EventSeen(i) \/ Drops(i)
    PROVE  IInv'
  <1>1. /\ Healthy(effect[i]) /\ effect[i] \in Effect /\ effect[i].url \in Switch
        /\ i \in DOMAIN late /\ Rest
    BY Domains DEF IInv, Effects, Healthy, Effect
  <1>2. CASE Opens(i)
    <2> DEFINE f == [effect[i] EXCEPT !.ws = "open", !.failures = 0]
    <2>1. Healthy(f) /\ f.cancelled = effect[i].cancelled
      BY <1>1, <1>2, OpenHealthy DEF Opens
    <2>2. effect' = [effect EXCEPT ![i] = f] /\ late' = late /\ ~AtEnd(effect[i])
      BY <1>2 DEF Opens, AtEnd
    <2> HIDE DEF f
    <2>3. Effects'
      BY <2>1, <2>2, Updated
    <2> QED BY <1>1, <1>2, <2>3, PanelType DEF IInv, Rest, Opens
  <1>3. ASSUME NEW before \in {"open", "live"}, Receives(i, before)
        PROVE  IInv'
    <2> DEFINE f == [effect[i] EXCEPT !.ws = "live"]
    <2>1. Healthy(f) /\ f.cancelled = effect[i].cancelled
      BY <1>1, <1>3, ReceiveHealthy DEF Receives
    <2>2. effect' = [effect EXCEPT ![i] = f] /\ late' = late /\ ~AtEnd(effect[i])
      BY <1>3 DEF Receives, AtEnd
    <2> HIDE DEF f
    <2>3. Effects'
      BY <2>1, <2>2, Updated
    <2> QED BY <1>1, <1>3, <2>3, PanelType DEF IInv, Rest, Receives
  <1>4. CASE Greeted(i) \/ EventSeen(i)
    BY <1>3, <1>4 DEF Greeted, EventSeen
  <1>5. CASE Closes(i) \/ Drops(i)
    <2> DEFINE f == AfterClose(effect[i])
    <2>1. /\ effect[i].ws # "none" /\ effect' = [effect EXCEPT ![i] = f]
          /\ late' = late /\ ~AtEnd(effect[i])
      BY <1>5 DEF Closes, Drops, AtEnd
    <2>2. Healthy(f) /\ f.cancelled = effect[i].cancelled
      BY <1>1, <2>1, CloseHealthy
    <2> HIDE DEF f
    <2>3. Effects'
      BY <2>1, <2>2, Updated
    <2>4. /\ panel' = [panel EXCEPT !.connected = FALSE] /\ up' = up /\ outages' = outages
          /\ drops' = drops \/ (drops < MaxDrops /\ drops' = drops + 1)
      BY <1>5 DEF Closes, Drops
    <2>5. panel' \in Panel
      BY <1>1, <2>4, PanelType DEF Rest
    <2>6. drops' \in 0..MaxDrops
      BY <1>1, <2>4, BoundAssumption DEF Rest
    <2> QED BY <1>1, <2>3, <2>4, <2>5, <2>6 DEF IInv, Rest
  <1>6. CASE Retry(i)
    <2> DEFINE f == Connect(effect[i])
    <2>1. Healthy(f) /\ f.cancelled = effect[i].cancelled
      BY <1>1, <1>6, RetryHealthy DEF Retry
    <2>2. effect' = [effect EXCEPT ![i] = f] /\ late' = late /\ ~AtEnd(effect[i])
      BY <1>6 DEF Retry, AtEnd
    <2> HIDE DEF f
    <2>3. Effects'
      BY <2>1, <2>2, Updated
    <2> QED BY <1>1, <1>6, <2>3 DEF IInv, Rest, Retry
  <1>7. CASE PollSucceeds(i) \/ PollFails(i)
    <2> DEFINE f == Polled(effect[i])
    <2>1. /\ Healthy(f) /\ f.cancelled = effect[i].cancelled
          /\ effect[i].cancelled => AtEnd(f)
      BY <1>1, <1>7, PollHealthy DEF PollSucceeds, PollFails
    <2>2. /\ effect' = [effect EXCEPT ![i] = f] /\ ~AtEnd(effect[i])
          /\ \/ late' = late
             \/ effect[i].cancelled /\ late' = [late EXCEPT ![i] = @ + 1]
      BY <1>7 DEF PollSucceeds, PollFails, AtEnd
    <2> HIDE DEF f
    <2>3. Effects'
      BY <2>1, <2>2, Updated
    <2>4. /\ \/ panel' = [connected |-> TRUE, transport |-> "poll", shows |-> effect[i].url]
             \/ panel' = [panel EXCEPT !.connected = FALSE]
          /\ UNCHANGED <<up, drops, outages>>
      BY <1>7 DEF PollSucceeds, PollFails
    <2>5. panel' \in Panel
      BY <1>1, <2>4, PanelType DEF Rest
    <2> QED BY <1>1, <2>3, <2>4, <2>5 DEF IInv, Rest
  <1>8. CASE PollAgain(i)
    <2> DEFINE f == [effect[i] EXCEPT !.timer = "none", !.fetching = TRUE]
    <2>1. Healthy(f) /\ f.cancelled = effect[i].cancelled
      BY <1>1, <1>8, PollHealthy DEF PollAgain
    <2>2. effect' = [effect EXCEPT ![i] = f] /\ late' = late /\ ~AtEnd(effect[i])
      BY <1>8 DEF PollAgain, AtEnd
    <2> HIDE DEF f
    <2>3. Effects'
      BY <2>1, <2>2, Updated
    <2> QED BY <1>1, <1>8, <2>3 DEF IInv, Rest, PollAgain
  <1> QED
    BY <1>2, <1>4, <1>5, <1>6, <1>7, <1>8 DEF Browser

LEMMA InitIInv == Init => IInv
  <1> SUFFICES ASSUME Init
               PROVE  IInv
    OBVIOUS
  <1>1. PICK s \in Switch : effect = [i \in {1} |-> Started(s)]
    BY DEF Init
  <1>2. Num = 1
    BY <1>1, FS_Singleton DEF Num
  <1>3. 1..Num = {1} /\ Num \in 1..MaxEffects
    BY <1>2, BoundAssumption
  <1>4. Healthy(effect[1]) /\ ~effect[1].cancelled
    BY <1>1, StartedHealthy
  <1>5. effect \in [1..Num -> Effect] /\ late \in [1..Num -> Nat] /\ late[1] = 0
    BY <1>1, <1>3, <1>4 DEF Init, Healthy
  <1> QED
    BY <1>2, <1>3, <1>4, <1>5, BoundAssumption DEF Init, IInv, Effects, Rest, Spent, Panel

LEMMA NextIInv == IInv /\ [Next]_vars => IInv'
  <1> SUFFICES ASSUME IInv, [Next]_vars
               PROVE  IInv'
    OBVIOUS
  <1>1. CASE \E i \in DOMAIN effect : Browser(i) \/ EventSeen(i) \/ Drops(i)
    BY <1>1, EffectIInv
  <1>2. CASE ChangeUrl
    BY <1>2, ChangeUrlIInv
  <1>3. CASE SwitchStops \/ SwitchStarts \/ UNCHANGED vars
    <2>1. UNCHANGED <<effect, late, panel, drops>>
      BY <1>3 DEF SwitchStops, SwitchStarts, vars
    <2>2. up' \subseteq Switch /\ outages' \in 0..MaxOutages
      BY <1>3, BoundAssumption DEF IInv, Rest, SwitchStops, SwitchStarts, vars
    <2>3. Effects'
      BY <2>1 DEF IInv, Effects, Num, Spent
    <2> QED BY <2>1, <2>2, <2>3 DEF IInv, Rest
  <1> QED
    BY <1>1, <1>2, <1>3 DEF Next

-----------------------------------------------------------------------------
(* Theorems *)

\* The inductive invariant holds: every effect is healthy, the current one is
\* not cancelled, and the late write of another was its last act
THEOREM Invariance == Spec => []IInv
  BY InitIInv, NextIInv, PTL DEF Spec

\* The hook's variables keep their types
THEOREM TypeCorrect == Spec => []TypeOK
  <1>1. IInv => TypeOK
    BY Domains DEF IInv, Effects, Rest, Panel, TypeOK
  <1> QED BY <1>1, Invariance, PTL

\* However sockets close, switches stop and URLs change, the current effect has
\* exactly one of socket, timer and request under way: the panel neither gives
\* its switch up nor pursues it twice
THEOREM NeverGivesUpHolds == Spec => []NeverGivesUp
  <1>1. IInv => NeverGivesUp
    BY Domains, OneUnderWay DEF IInv, Effects, NeverGivesUp
  <1> QED BY <1>1, Invariance, PTL

\* An effect whose URL has gone writes ports into the panel at most once
THEOREM OneLateWriteHolds == Spec => []OneLateWrite
  <1>1. IInv => OneLateWrite
    BY Domains DEF IInv, Effects, Spent, OneLateWrite
  <1> QED BY <1>1, Invariance, PTL

-----------------------------------------------------------------------------
(* An old effect, step by step *)

LEMMA RemainingIs ==
    ASSUME NEW e, Healthy(e)
    PROVE  /\ e.ws # "none" => Remaining(e) = 2
           /\ e.ws = "none" /\ (e.timer # "none" \/ e.fetching) => Remaining(e) = 1
           /\ AtEnd(e) => Remaining(e) = 0
           /\ Remaining(e) \in {0, 1, 2}
  <1>1. UnderWay(e) # {} <=> e.ws # "none" \/ e.timer # "none" \/ e.fetching
    BY DEF UnderWay
  <1> QED BY <1>1 DEF Remaining, AtEnd

\* Cancelling again changes nothing
LEMMA CancelledStays ==
    ASSUME NEW e, Healthy(e), e.cancelled
    PROVE  Cancel(e) = e
  <1> DEFINE w == IF e.ws = "none" THEN "none" ELSE "closing"
             e1 == [e EXCEPT !.cancelled = TRUE]
             e2 == [e1 EXCEPT !.timer = "none"]
             e3 == [e2 EXCEPT !.ws = w]
  <1>1. e \in Effect /\ e.timer = "none" /\ e.ws \in {"none", "closing"}
    BY DEF Healthy
  <1>2. w = e.ws
    BY <1>1
  <1>3. e1 = e
    BY <1>1 DEF Effect
  <1>4. e2 = e
    BY <1>1, <1>3 DEF Effect
  <1>5. e3 = e
    BY <1>1, <1>2, <1>4 DEF Effect
  <1>6. Cancel(e) = e3
    BY DEF Cancel
  <1> QED BY <1>5, <1>6

\* onclose of a cancelled effect leaves a fetch or nothing; poll leaves nothing
LEMMA EffectWindsDown ==
    ASSUME IInv, NEW i \in DOMAIN effect, effect[i].cancelled,
           Browser(i) \/ EventSeen(i) \/ Drops(i)
    PROVE  effect'[i].cancelled /\ Remaining(effect'[i]) < Remaining(effect[i])
  <1>1. Healthy(effect[i])
    BY Domains DEF IInv, Effects
  <1>2. effect[i].timer = "none" /\ effect[i].ws \in {"none", "closing"}
    BY <1>1 DEF Healthy
  <1>3. \/ effect[i].ws = "closing" /\ effect' = [effect EXCEPT ![i] = AfterClose(effect[i])]
        \/ effect[i].fetching /\ effect' = [effect EXCEPT ![i] = Polled(effect[i])]
    BY <1>2 DEF Browser, Opens, Greeted, EventSeen, Receives, Closes, Drops, Retry,
                PollSucceeds, PollFails, PollAgain
  <1>4. CASE effect[i].ws = "closing" /\ effect' = [effect EXCEPT ![i] = AfterClose(effect[i])]
    <2> DEFINE f == AfterClose(effect[i])
    <2>1. Healthy(f) /\ f.cancelled /\ f.ws = "none"
      <3>1. Healthy(f) /\ f.cancelled = effect[i].cancelled
        BY <1>1, <1>4, CloseHealthy
      <3>2. f.ws = "none"
        BY <1>1 DEF AfterClose, Healthy, Effect
      <3> QED BY <3>1, <3>2
    <2>2. effect'[i] = f
      BY <1>4
    <2> HIDE DEF f
    <2>3. Remaining(effect[i]) = 2 /\ Remaining(f) \in {0, 1}
      <3>1. f.ws = "none" => Remaining(f) \in {0, 1}
        BY DEF Remaining
      <3> QED BY <1>1, <1>4, <2>1, <3>1, RemainingIs
    <2> QED BY <2>1, <2>2, <2>3
  <1>5. CASE effect[i].fetching /\ effect' = [effect EXCEPT ![i] = Polled(effect[i])]
    <2> DEFINE f == Polled(effect[i])
    <2>1. Healthy(f) /\ f.cancelled /\ AtEnd(f)
      BY <1>1, <1>5, PollHealthy
    <2>2. effect'[i] = f
      BY <1>5
    <2> HIDE DEF f
    <2>3. Remaining(effect[i]) = 1 /\ Remaining(f) = 0
      <3>1. effect[i].ws = "none"
        BY <1>1, <1>5 DEF Healthy
      <3> QED BY <1>1, <1>5, <2>1, <3>1, RemainingIs
    <2> QED BY <2>1, <2>2, <2>3
  <1> QED BY <1>3, <1>4, <1>5

\* The cleanup clears the timers and closes the socket: from then on an effect only
\* loses what it has under way, a socket, then perhaps one fetch, then nothing
THEOREM OldEffectsWindDownHolds == Spec => OldEffectsWindDown
  <1> DEFINE Down(i) == \/ effect'[i] = effect[i]
                        \/ /\ effect'[i].cancelled
                           /\ Remaining(effect'[i]) < Remaining(effect[i])
  <1>1. ASSUME IInv, [Next]_vars, NEW i \in DOMAIN effect, effect[i].cancelled
        PROVE  Down(i)
    <2>1. CASE Browser(i) \/ EventSeen(i) \/ Drops(i)
      BY <1>1, <2>1, EffectWindsDown
    <2>2. ASSUME NEW j \in DOMAIN effect, j # i, Browser(j) \/ EventSeen(j) \/ Drops(j)
          PROVE  Down(i)
      <3>1. \E f : effect' = [effect EXCEPT ![j] = f]
        BY <2>2 DEF Browser, Opens, Greeted, EventSeen, Receives, Closes, Drops, Retry,
                    PollSucceeds, PollFails, PollAgain
      <3>2. effect'[i] = effect[i]
        BY <2>2, <3>1
      <3> QED BY <3>2
    <2>3. CASE ChangeUrl
      <3>1. i \in 1..Num /\ Num \in Nat /\ Healthy(effect[i])
        BY <1>1, Domains, BoundAssumption DEF IInv, Effects
      <3>2. PICK s \in Switch :
                effect' = [k \in 1..(Num + 1) |->
                              IF k <= Num THEN Cancel(effect[k]) ELSE Started(s)]
        BY <2>3 DEF ChangeUrl, Num
      <3>3. i \in 1..(Num + 1) /\ i <= Num
        BY <3>1
      <3>4. effect'[i] = Cancel(effect[i])
        BY <3>2, <3>3
      <3>5. Cancel(effect[i]) = effect[i]
        BY <1>1, <3>1, CancelledStays
      <3> QED BY <3>4, <3>5
    <2>4. CASE SwitchStops \/ SwitchStarts \/ UNCHANGED vars
      BY <2>4 DEF SwitchStops, SwitchStarts, vars
    <2> HIDE DEF Down
    <2> QED BY <1>1, <2>1, <2>2, <2>3, <2>4 DEF Next
  <1>2. IInv /\ [Next]_vars =>
            [\A i \in DOMAIN effect : effect[i].cancelled =>
                \/ effect'[i] = effect[i]
                \/ effect'[i].cancelled /\ Remaining(effect'[i]) < Remaining(effect[i])]_vars
    BY <1>1
  <1> QED BY <1>2, Invariance, PTL DEF Spec, OldEffectsWindDown
=============================================================================
