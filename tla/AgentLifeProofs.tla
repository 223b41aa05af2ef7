-------------------------- MODULE AgentLifeProofs --------------------------
(***************************************************************************)
(* Listings neither lapse under an agent that keeps announcing nor long    *)
(* outlive it, for any number of files and any times that leave the        *)
(* tracker's TTL room for the wait, the retries and the binding.           *)
(*                                                                         *)
(* The argument is an account of time: for every stage, what the process   *)
(* may still take until its next request is delivered (Ahead), against     *)
(* what is left of the listings it counts on; and, for every request on    *)
(* its way, how old the sight of the files it names can be.                *)
(***************************************************************************)
EXTENDS AgentLife, TLAPS

\* What the process may take from the end of this stage's clock until the
\* request under way is over.
Rest ==
    CASE flight = "pause"                              -> Timeout
      [] flight \in {"sent", "done"} /\ attempt = 1    -> Backoff + Timeout
      [] OTHER                                         -> 0

\* What it may take from the end of the clock until a request that renews what
\* has been announced is delivered or given up.
Ahead ==
    CASE flight \in {"sent", "pause"}            -> Rest
      [] flight = "done" /\ at = "announce"      -> BindTime + Interval + RequestTime
      [] flight = "done" /\ at # "announce"      -> Interval + RequestTime
      [] flight = "none" /\ at = "bind"          -> Interval + RequestTime
      [] OTHER                                   -> RequestTime

\* How the parts of a stage go together.
Shape ==
    /\ at \in Posting <=> flight # "none"
    /\ flight = "pause" => attempt = 1
    /\ flight \in {"sent", "done"} => clock <= Timeout
    /\ at \notin {"announce", "renew"} => body = {}
    /\ kept \subseteq root
    /\ kept # {} => at \in {"announce", "bind", "wait", "renew"}

\* What is kept is listed for longer than the next renewal can take.
Renewed == \A h \in kept : lease[h] > clock + Ahead

\* What a listing rests on is not older than the way of the request.
Fresh ==
    /\ \A h \in Hashes : lease[h] > 0 => stale[h] + lease[h] <= Outlives
    /\ \A h \in body : stale[h] + clock + Rest <= RequestTime
    /\ \A m \in late : \A h \in m.names : stale[h] + m.life <= RequestTime + Late

\* What the tracker has confirmed holds until a request arrives late.
Gone ==
    /\ left => at = "down"
    /\ ~revived /\ (left \/ (at = "leave" /\ flight = "done")) => Listed = {}

IndInv == TypeOK /\ Shape /\ Renewed /\ Fresh /\ Gone
-----------------------------------------------------------------------------
\* The times are natural numbers, and the TTL has room.
LEMMA Times ==
    /\ Interval \in Nat /\ Timeout \in Nat /\ Backoff \in Nat /\ Late \in Nat
    /\ Interval > 0 /\ Timeout > 0 /\ Backoff > 0 /\ Late > 0
    /\ BindTime \in Nat /\ TTL \in Nat /\ TTL > 0
    /\ RequestTime = Timeout + Backoff + Timeout /\ RequestTime \in Nat
    /\ TTL > Timeout + BindTime + Interval + RequestTime
    /\ Outlives = RequestTime + Late + TTL /\ Outlives \in Nat
  BY LifeAssumption DEF RequestTime, Outlives

LEMMA InitInv == Init => IndInv
  <1> SUFFICES ASSUME Init PROVE IndInv
    OBVIOUS
  <1> USE Times DEF Init
  <1>1. TypeOK
    <2>1. signalled \in BOOLEAN /\ left \in BOOLEAN /\ revived \in BOOLEAN
      BY Zenon
    <2> QED
      BY <2>1 DEF TypeOK, MaxRetries
  <1>2. Shape /\ Renewed
    BY DEF Shape, Posting, Renewed
  <1>3. Fresh
    BY DEF Fresh
  <1>4. Gone
    BY DEF Gone, Listed
  <1> QED
    BY <1>1, <1>2, <1>3, <1>4 DEF IndInv

\* What the end of a call means for the process.
LEMMA ReturnFacts ==
    ASSUME TypeOK, Shape, flight # "none", NEW ok \in BOOLEAN, Returns(ok)
    PROVE  /\ \/ at = "announce" /\ at' = "bind" /\ clock' = BindTime /\ signalled' = signalled
              \/ at = "renew" /\ at' = "wait" /\ clock' = Interval /\ signalled' = signalled
              \/ at = "leave" /\ at' = "down" /\ clock' = 0 /\ signalled' = FALSE
           /\ flight' = "none" /\ attempt' = 1 /\ body' = {}
           /\ kept' = (IF ok THEN kept ELSE {})
           /\ left' = (ok /\ at = "leave")
           /\ at' \in {"bind", "wait", "down"} /\ clock' \in Nat /\ kept' \subseteq Hashes
  <1>0. kept \subseteq Hashes /\ BindTime \in Nat /\ Interval \in Nat
    BY Times DEF TypeOK
  <1>1. at \in Posting
    BY DEF Shape
  <1>2. kept' = (IF ok THEN kept ELSE {}) /\ left' = (ok /\ at = "leave")
    BY DEF Returns
  <1>3. CASE at = "announce"
    BY <1>0, <1>2, <1>3 DEF Returns, Stage
  <1>4. CASE at = "renew"
    BY <1>0, <1>2, <1>4 DEF Returns, Stage, Wait
  <1>5. CASE at = "leave"
    BY <1>0, <1>2, <1>5 DEF Returns, Stage
  <1> QED
    BY <1>1, <1>3, <1>4, <1>5 DEF Posting

\* What may be on its way after an attempt was given up.
LEMMA GivenUpFacts ==
    ASSUME TypeOK, Shape, GivenUp, NEW m \in late'
    PROVE  /\ m \in Requests
           /\ m \in late \/ (flight = "sent" /\ m.names = body /\ m.life = Late)
  <1>1. CASE m \in late
    BY <1>1 DEF TypeOK
  <1>2. CASE m \notin late
    <2>1. flight = "sent" /\ m = [to |-> at, names |-> body, life |-> Late]
      BY <1>2 DEF GivenUp
    <2>2. at \in Posting
      BY <2>1 DEF Shape
    <2> QED
      BY <2>1, <2>2, Times DEF TypeOK, Requests
  <1> QED
    BY <1>1, <1>2

\* What is on its way a tick later was on its way before.
LEMMA TickFacts ==
    ASSUME TypeOK, Tick, NEW m \in late'
    PROVE  /\ m \in Requests
           /\ \E n \in late : /\ n.life > 1 /\ n.life \in 1..Late /\ n.names \subseteq Hashes
                              /\ m.names = n.names /\ m.life = n.life - 1
  <1>1. PICK n \in late : n.life > 1 /\ m = [n EXCEPT !.life = @ - 1]
    BY DEF Tick
  <1>2. n \in Requests
    BY DEF TypeOK
  <1> QED
    BY <1>1, <1>2, Times DEF Requests

LEMMA TypeStep == TypeOK /\ Shape /\ [Next]_vars => TypeOK'
  <1> SUFFICES ASSUME TypeOK, Shape, [Next]_vars PROVE TypeOK'
    OBVIOUS
  <1> USE Times DEF TypeOK, Shape, Posting, MaxRetries
  <1>1. ASSUME Announce PROVE TypeOK'
    BY <1>1 DEF Announce, Stage, Post, Seen
  <1>2. ASSUME Bind PROVE TypeOK'
    BY <1>2 DEF Bind, Stage
  <1>3. ASSUME Wake PROVE TypeOK'
    BY <1>3 DEF Wake, Stage
  <1>4. ASSUME Due PROVE TypeOK'
    BY <1>4 DEF Due, Stage, Post, Seen, Names, Wait
  <1>5. ASSUME ListFails PROVE TypeOK'
    BY <1>5 DEF ListFails, Stage
  <1>6. ASSUME Replied PROVE TypeOK'
    <2>1. flight # "none" /\ Returns(TRUE) /\ UNCHANGED << root, lease, late, stale, revived >>
      BY <1>6 DEF Replied
    <2>2. signalled' \in BOOLEAN /\ left' \in BOOLEAN /\ revived' \in BOOLEAN
      BY <2>1, ReturnFacts
    <2>3. /\ at' \in {"bind", "wait", "down"} /\ clock' \in Nat
          /\ flight' = "none" /\ attempt' = 1 /\ body' = {} /\ kept' \subseteq Hashes
      BY <2>1, ReturnFacts
    <2> QED
      BY <2>1, <2>2, <2>3
  <1>7. ASSUME Refused PROVE TypeOK'
    <2>1. flight # "none" /\ Returns(FALSE) /\ UNCHANGED << root, lease, late, stale, revived >>
      BY <1>7 DEF Refused
    <2>2. signalled' \in BOOLEAN /\ left' \in BOOLEAN /\ revived' \in BOOLEAN
      BY <2>1, ReturnFacts
    <2>3. /\ at' \in {"bind", "wait", "down"} /\ clock' \in Nat
          /\ flight' = "none" /\ attempt' = 1 /\ body' = {} /\ kept' \subseteq Hashes
      BY <2>1, ReturnFacts
    <2> QED
      BY <2>1, <2>2, <2>3
  <1>8. ASSUME Garbled PROVE TypeOK'
    <2>1. signalled' \in BOOLEAN /\ left' \in BOOLEAN /\ revived' \in BOOLEAN
      BY <1>8, Zenon DEF Garbled, Down, Stage
    <2> QED
      BY <1>8, <2>1 DEF Garbled, Stage, Down
  <1>9. ASSUME Breaks PROVE TypeOK'
    <2>1. late' \subseteq Requests
      BY <1>9, GivenUpFacts DEF Breaks
    <2>2. CASE LastAttempt
      <3>1. flight # "none" /\ Returns(FALSE) /\ UNCHANGED << root, lease, stale, revived >>
        BY <1>9, <2>2 DEF Breaks
      <3>2. signalled' \in BOOLEAN /\ left' \in BOOLEAN /\ revived' \in BOOLEAN
        BY <3>1, ReturnFacts
      <3>3. /\ at' \in {"bind", "wait", "down"} /\ clock' \in Nat
            /\ flight' = "none" /\ attempt' = 1 /\ body' = {} /\ kept' \subseteq Hashes
        BY <3>1, ReturnFacts
      <3> QED
        BY <2>1, <3>1, <3>2, <3>3
    <2>3. CASE ~LastAttempt
      BY <1>9, <2>1, <2>3 DEF Breaks
    <2> QED
      BY <2>2, <2>3
  <1>10. ASSUME Resume PROVE TypeOK'
    BY <1>10 DEF Resume, NextAttempt
  <1>11. ASSUME Close PROVE TypeOK'
    BY <1>11 DEF Close, Post
  <1>12. ASSUME Start PROVE TypeOK'
    <2>1. signalled' \in BOOLEAN /\ left' \in BOOLEAN /\ revived' \in BOOLEAN
      BY <1>12, Zenon DEF Start
    <2> QED
      BY <1>12, <2>1 DEF Start, Stage
  <1>13. ASSUME Signal PROVE TypeOK'
    BY <1>13 DEF Signal
  <1>14. ASSUME Crash PROVE TypeOK'
    <2>1. late' \subseteq Requests
      BY <1>14, GivenUpFacts DEF Crash
    <2>2. signalled' \in BOOLEAN /\ left' \in BOOLEAN /\ revived' \in BOOLEAN
      BY <1>14, Zenon DEF Crash, Down
    <2> QED
      BY <1>14, <2>1, <2>2 DEF Crash, Down, Stage
  <1>15. ASSUME Deliver PROVE TypeOK'
    BY <1>15 DEF Deliver, Effect, TakenBack
  <1>16. ASSUME LateArrives PROVE TypeOK'
    BY <1>16 DEF LateArrives, Effect, TakenBack, processVars
  <1>17. ASSUME TrackerForgets PROVE TypeOK'
    BY <1>17 DEF TrackerForgets, processVars
  <1>18. ASSUME NEW h \in Hashes, RootChanges(h) PROVE TypeOK'
    BY <1>18 DEF RootChanges, processVars
  <1>19. ASSUME Tick PROVE TypeOK'
    <2>1. late' \subseteq Requests
      BY <1>19, TickFacts
    <2>2. lease' \in [Hashes -> 0..TTL]
      BY <1>19 DEF Tick, Less
    <2>3. stale' \in [Hashes -> 0..Outlives]
      BY <1>19 DEF Tick
    <2> QED
      BY <1>19, <2>1, <2>2, <2>3 DEF Tick, Less
  <1>20. CASE UNCHANGED vars
    BY <1>20 DEF vars, processVars
  <1> QED
    BY <1>1, <1>2, <1>3, <1>4, <1>5, <1>6, <1>7, <1>8, <1>9, <1>10,
       <1>11, <1>12, <1>13, <1>14, <1>15, <1>16, <1>17, <1>18, <1>19, <1>20
       DEF Next, Process, World

LEMMA ShapeStep == TypeOK /\ Shape /\ [Next]_vars => Shape'
  <1> SUFFICES ASSUME TypeOK, Shape, [Next]_vars PROVE Shape'
    OBVIOUS
  <1> USE Times DEF TypeOK, Shape, Posting, MaxRetries
  <1>1. ASSUME Announce PROVE Shape'
    BY <1>1 DEF Announce, Stage, Post, Seen
  <1>2. ASSUME Bind PROVE Shape'
    BY <1>2 DEF Bind, Stage
  <1>3. ASSUME Wake PROVE Shape'
    BY <1>3 DEF Wake, Stage
  <1>4. ASSUME Due PROVE Shape'
    BY <1>4 DEF Due, Stage, Post, Seen, Names, Wait
  <1>5. ASSUME ListFails PROVE Shape'
    BY <1>5 DEF ListFails, Stage
  <1>6. ASSUME Replied PROVE Shape'
    BY <1>6 DEF Replied, Returns, Stage, Wait
  <1>7. ASSUME Refused PROVE Shape'
    BY <1>7 DEF Refused, Returns, Stage, Wait
  <1>8. ASSUME Garbled PROVE Shape'
    BY <1>8 DEF Garbled, Stage, Down
  <1>9. ASSUME Breaks PROVE Shape'
    <2>1. CASE LastAttempt
      BY <1>9, <2>1, ReturnFacts DEF Breaks
    <2>2. CASE ~LastAttempt
      BY <1>9, <2>2 DEF Breaks, LastAttempt
    <2> QED
      BY <2>1, <2>2
  <1>10. ASSUME Resume PROVE Shape'
    BY <1>10 DEF Resume, NextAttempt
  <1>11. ASSUME Close PROVE Shape'
    BY <1>11 DEF Close, Post
  <1>12. ASSUME Start PROVE Shape'
    BY <1>12 DEF Start, Stage
  <1>13. ASSUME Signal PROVE Shape'
    BY <1>13 DEF Signal
  <1>14. ASSUME Crash PROVE Shape'
    BY <1>14 DEF Crash, Down, Stage, GivenUp
  <1>15. ASSUME Deliver PROVE Shape'
    BY <1>15 DEF Deliver, Effect, TakenBack
  <1>16. ASSUME LateArrives PROVE Shape'
    BY <1>16 DEF LateArrives, Effect, TakenBack, processVars
  <1>17. ASSUME TrackerForgets PROVE Shape'
    BY <1>17 DEF TrackerForgets, processVars
  <1>18. ASSUME NEW h \in Hashes, RootChanges(h) PROVE Shape'
    BY <1>18 DEF RootChanges, processVars
  <1>19. ASSUME Tick PROVE Shape'
    BY <1>19 DEF Tick, Urgent, Less
  <1>20. CASE UNCHANGED vars
    BY <1>20 DEF vars, processVars
  <1> QED
    BY <1>1, <1>2, <1>3, <1>4, <1>5, <1>6, <1>7, <1>8, <1>9, <1>10,
       <1>11, <1>12, <1>13, <1>14, <1>15, <1>16, <1>17, <1>18, <1>19, <1>20
       DEF Next, Process, World

LEMMA RenewedStep == TypeOK /\ Shape /\ Renewed /\ [Next]_vars => Renewed'
  <1> SUFFICES ASSUME TypeOK, Shape, Renewed, [Next]_vars PROVE Renewed'
    OBVIOUS
  <1> USE Times DEF TypeOK, Shape, Posting, MaxRetries, Renewed, Ahead, Rest
  <1>1. ASSUME Announce PROVE Renewed'
    BY <1>1 DEF Announce, Stage, Post, Seen
  <1>2. ASSUME Bind PROVE Renewed'
    BY <1>2 DEF Bind, Stage
  <1>3. ASSUME Wake PROVE Renewed'
    BY <1>3 DEF Wake, Stage
  <1>4. ASSUME Due PROVE Renewed'
    <2>1. CASE root = {}
      BY <1>4, <2>1 DEF Due, Stage, Names, Wait
    <2>2. CASE root # {}
      BY <1>4, <2>2 DEF Due, Post, Names
    <2> QED
      BY <2>1, <2>2
  <1>5. ASSUME ListFails PROVE Renewed'
    BY <1>5 DEF ListFails, Stage
  <1>6. ASSUME Replied PROVE Renewed'
    <2>1. flight = "done" /\ Returns(TRUE) /\ lease' = lease
      BY <1>6 DEF Replied
    <2>2. CASE at = "announce"
      <3>1. at' = "bind" /\ clock' = BindTime /\ flight' = "none" /\ kept' = kept
        BY <2>1, <2>2, ReturnFacts
      <3> QED
        BY <2>1, <2>2, <3>1
    <2>3. CASE at = "renew"
      <3>1. at' = "wait" /\ clock' = Interval /\ flight' = "none" /\ kept' = kept
        BY <2>1, <2>3, ReturnFacts
      <3> QED
        BY <2>1, <2>3, <3>1
    <2>4. CASE at = "leave"
      BY <2>1, <2>4, ReturnFacts
    <2> QED
      BY <2>1, <2>2, <2>3, <2>4
  <1>7. ASSUME Refused PROVE Renewed'
    BY <1>7 DEF Refused, Returns, Stage, Wait
  <1>8. ASSUME Garbled PROVE Renewed'
    BY <1>8 DEF Garbled, Stage, Down
  <1>9. ASSUME Breaks PROVE Renewed'
    <2>1. CASE LastAttempt
      BY <1>9, <2>1, ReturnFacts DEF Breaks
    <2>2. CASE ~LastAttempt
      <3>1. attempt = 1
        BY <2>2 DEF LastAttempt
      <3> QED
        BY <1>9, <2>2, <3>1 DEF Breaks
    <2> QED
      BY <2>1, <2>2
  <1>10. ASSUME Resume PROVE Renewed'
    BY <1>10 DEF Resume, NextAttempt
  <1>11. ASSUME Close PROVE Renewed'
    BY <1>11 DEF Close, Post
  <1>12. ASSUME Start PROVE Renewed'
    BY <1>12 DEF Start, Stage
  <1>13. ASSUME Signal PROVE Renewed'
    BY <1>13 DEF Signal
  <1>14. ASSUME Crash PROVE Renewed'
    BY <1>14 DEF Crash, Down, Stage, GivenUp
  <1>15. ASSUME Deliver PROVE Renewed'
    BY <1>15 DEF Deliver, Effect, TakenBack
  <1>16. ASSUME LateArrives PROVE Renewed'
    BY <1>16 DEF LateArrives, Effect, TakenBack, processVars
  <1>17. ASSUME TrackerForgets PROVE Renewed'
    BY <1>17 DEF TrackerForgets, processVars
  <1>18. ASSUME NEW h \in Hashes, RootChanges(h) PROVE Renewed'
    BY <1>18 DEF RootChanges, processVars
  <1>19. ASSUME Tick PROVE Renewed'
    BY <1>19 DEF Tick, Urgent, Less
  <1>20. CASE UNCHANGED vars
    BY <1>20 DEF vars, processVars
  <1> QED
    BY <1>1, <1>2, <1>3, <1>4, <1>5, <1>6, <1>7, <1>8, <1>9, <1>10,
       <1>11, <1>12, <1>13, <1>14, <1>15, <1>16, <1>17, <1>18, <1>19, <1>20
       DEF Next, Process, World

LEMMA FreshStep == TypeOK /\ Shape /\ Fresh /\ [Next]_vars => Fresh'
  <1> SUFFICES ASSUME TypeOK, Shape, Fresh, [Next]_vars PROVE Fresh'
    OBVIOUS
  <1> USE Times DEF TypeOK, Shape, Posting, MaxRetries, Fresh, Rest
  <1>1. ASSUME Announce PROVE Fresh'
    <2>1. \A h \in Hashes : stale'[h] = (IF h \in root THEN 0 ELSE stale[h])
      BY <1>1 DEF Announce, Seen
    <2>2. \A h \in Hashes : stale'[h] <= stale[h] /\ stale[h] \in Nat /\ stale'[h] \in Nat
      BY <2>1
    <2>3. \A h \in Hashes : lease'[h] > 0 => stale'[h] + lease'[h] <= Outlives
      <3> SUFFICES ASSUME NEW h \in Hashes, lease'[h] > 0 PROVE stale'[h] + lease'[h] <= Outlives
        OBVIOUS
      <3>1. lease'[h] = lease[h] /\ lease[h] \in Nat
        BY <1>1 DEF Announce
      <3> QED
        BY <2>2, <3>1
    <2>4. \A m \in late' : \A h \in m.names : stale'[h] + m.life <= RequestTime + Late
      <3> SUFFICES ASSUME NEW m \in late, NEW h \in m.names
                   PROVE  stale'[h] + m.life <= RequestTime + Late
        BY <1>1 DEF Announce
      <3>1. h \in Hashes /\ m.life \in Nat
        BY DEF Requests
      <3> QED
        BY <2>2, <3>1
    <2>5. \A h \in body' : stale'[h] + clock' + Rest' <= RequestTime
      <3>1. CASE root = {}
        BY <1>1, <3>1 DEF Announce, Stage
      <3>2. CASE root # {}
        BY <1>1, <2>1, <3>2 DEF Announce, Post
      <3> QED
        BY <3>1, <3>2
    <2> QED
      BY <2>3, <2>4, <2>5
  <1>2. ASSUME Bind PROVE Fresh'
    BY <1>2 DEF Bind, Stage
  <1>3. ASSUME Wake PROVE Fresh'
    BY <1>3 DEF Wake, Stage
  <1>4. ASSUME Due PROVE Fresh'
    <2>1. \A h \in Hashes : stale'[h] = (IF h \in root THEN 0 ELSE stale[h])
      BY <1>4 DEF Due, Seen
    <2>2. \A h \in Hashes : stale'[h] <= stale[h] /\ stale[h] \in Nat /\ stale'[h] \in Nat
      BY <2>1
    <2>3. \A h \in Hashes : lease'[h] > 0 => stale'[h] + lease'[h] <= Outlives
      <3> SUFFICES ASSUME NEW h \in Hashes, lease'[h] > 0 PROVE stale'[h] + lease'[h] <= Outlives
        OBVIOUS
      <3>1. lease'[h] = lease[h] /\ lease[h] \in Nat
        BY <1>4 DEF Due
      <3> QED
        BY <2>2, <3>1
    <2>4. \A m \in late' : \A h \in m.names : stale'[h] + m.life <= RequestTime + Late
      <3> SUFFICES ASSUME NEW m \in late, NEW h \in m.names
                   PROVE  stale'[h] + m.life <= RequestTime + Late
        BY <1>4 DEF Due
      <3>1. h \in Hashes /\ m.life \in Nat
        BY DEF Requests
      <3> QED
        BY <2>2, <3>1
    <2>5. \A h \in body' : stale'[h] + clock' + Rest' <= RequestTime
      <3>1. CASE root = {}
        BY <1>4, <3>1 DEF Due, Stage, Names, Wait
      <3>2. CASE root # {}
        BY <1>4, <2>1, <3>2 DEF Due, Post, Names
      <3> QED
        BY <3>1, <3>2
    <2> QED
      BY <2>3, <2>4, <2>5
  <1>5. ASSUME ListFails PROVE Fresh'
    BY <1>5 DEF ListFails, Stage
  <1>6. ASSUME Replied PROVE Fresh'
    BY <1>6 DEF Replied, Returns, Stage, Wait
  <1>7. ASSUME Refused PROVE Fresh'
    BY <1>7 DEF Refused, Returns, Stage, Wait
  <1>8. ASSUME Garbled PROVE Fresh'
    BY <1>8 DEF Garbled, Stage, Down
  <1>9. ASSUME Breaks PROVE Fresh'
    <2>1. stale' = stale /\ lease' = lease
      BY <1>9 DEF Breaks
    <2>2. \A h \in body : stale[h] + clock + Rest <= RequestTime /\ stale[h] \in Nat
      OBVIOUS
    <2>3. \A m \in late' : \A h \in m.names : stale'[h] + m.life <= RequestTime + Late
      <3> SUFFICES ASSUME NEW m \in late', NEW h \in m.names
                   PROVE  stale[h] + m.life <= RequestTime + Late
        BY <2>1
      <3>1. m \in late \/ (flight = "sent" /\ m.names = body /\ m.life = Late)
        BY <1>9, GivenUpFacts DEF Breaks
      <3> QED
        BY <2>2, <3>1
    <2>4. \A h \in body' : stale'[h] + clock' + Rest' <= RequestTime
      <3>1. CASE LastAttempt
        BY <1>9, <3>1, ReturnFacts DEF Breaks
      <3>2. CASE ~LastAttempt
        <4>1. attempt = 1
          BY <3>2 DEF LastAttempt
        <4> QED
          BY <1>9, <2>1, <2>2, <3>2, <4>1 DEF Breaks
      <3> QED
        BY <3>1, <3>2
    <2> QED
      BY <2>1, <2>3, <2>4
  <1>10. ASSUME Resume PROVE Fresh'
    BY <1>10 DEF Resume, NextAttempt
  <1>11. ASSUME Close PROVE Fresh'
    BY <1>11 DEF Close, Post
  <1>12. ASSUME Start PROVE Fresh'
    BY <1>12 DEF Start, Stage
  <1>13. ASSUME Signal PROVE Fresh'
    BY <1>13 DEF Signal
  <1>14. ASSUME Crash PROVE Fresh'
    BY <1>14 DEF Crash, Down, Stage, GivenUp
  <1>15. ASSUME Deliver PROVE Fresh'
    BY <1>15 DEF Deliver, Effect, TakenBack
  <1>16. ASSUME LateArrives PROVE Fresh'
    <2>1. PICK m \in late : Effect(m.to, m.names) /\ late' = late \ {m}
      BY <1>16 DEF LateArrives
    <2>2. UNCHANGED << stale, body, clock, flight, attempt >>
      BY <1>16 DEF LateArrives, processVars
    <2>3. m.life >= 1 /\ m.life \in Nat
      BY DEF Requests
    <2>4. \A h \in Hashes : lease'[h] \in {0, lease[h]} \/ (h \in m.names /\ lease'[h] = TTL)
      BY <2>1 DEF Effect
    <2>5. \A h \in Hashes : lease'[h] > 0 => stale[h] + lease'[h] <= Outlives
      BY <2>3, <2>4
    <2> QED
      BY <2>1, <2>2, <2>5
  <1>17. ASSUME TrackerForgets PROVE Fresh'
    BY <1>17 DEF TrackerForgets, processVars
  <1>18. ASSUME NEW h \in Hashes, RootChanges(h) PROVE Fresh'
    BY <1>18 DEF RootChanges, processVars
  <1>19. ASSUME Tick PROVE Fresh'
    <2>1. \A h \in Hashes : /\ stale[h] \in Nat /\ stale'[h] \in Nat /\ stale'[h] <= stale[h] + 1
                            /\ lease[h] \in Nat /\ lease'[h] = Less(lease[h])
      BY <1>19 DEF Tick
    <2>2. \A h \in Hashes : lease'[h] > 0 => stale'[h] + lease'[h] <= Outlives
      BY <2>1 DEF Less
    <2>3. \A m \in late' : \A h \in m.names : stale'[h] + m.life <= RequestTime + Late
      <3> SUFFICES ASSUME NEW m \in late', NEW h \in m.names
                   PROVE  stale'[h] + m.life <= RequestTime + Late
        OBVIOUS
      <3>1. PICK n \in late : /\ n.life \in 1..Late /\ n.names \subseteq Hashes
                             /\ m.names = n.names /\ m.life = n.life - 1
        BY <1>19, TickFacts
      <3>2. h \in Hashes /\ stale[h] + n.life <= RequestTime + Late
        BY <3>1
      <3> QED
        BY <2>1, <3>1, <3>2
    <2>4. \A h \in body' : stale'[h] + clock' + Rest' <= RequestTime
      <3>1. body' = body /\ Rest' = Rest
        BY <1>19 DEF Tick
      <3>2. body # {} => clock' = clock - 1
        BY <1>19 DEF Tick, Urgent, Less
      <3> QED
        BY <2>1, <3>1, <3>2
    <2> QED
      BY <2>2, <2>3, <2>4
  <1>20. CASE UNCHANGED vars
    BY <1>20 DEF vars, processVars
  <1> QED
    BY <1>1, <1>2, <1>3, <1>4, <1>5, <1>6, <1>7, <1>8, <1>9, <1>10,
       <1>11, <1>12, <1>13, <1>14, <1>15, <1>16, <1>17, <1>18, <1>19, <1>20
       DEF Next, Process, World

LEMMA GoneStep == TypeOK /\ Shape /\ Gone /\ [Next]_vars => Gone'
  <1> SUFFICES ASSUME TypeOK, Shape, Gone, [Next]_vars PROVE Gone'
    OBVIOUS
  <1> USE Times DEF TypeOK, Shape, Posting, MaxRetries, Gone, Listed
  <1>1. ASSUME Announce PROVE Gone'
    BY <1>1 DEF Announce, Stage, Post, Seen
  <1>2. ASSUME Bind PROVE Gone'
    BY <1>2 DEF Bind, Stage
  <1>3. ASSUME Wake PROVE Gone'
    BY <1>3 DEF Wake, Stage
  <1>4. ASSUME Due PROVE Gone'
    BY <1>4 DEF Due, Stage, Post, Seen, Names, Wait
  <1>5. ASSUME ListFails PROVE Gone'
    BY <1>5 DEF ListFails, Stage
  <1>6. ASSUME Replied PROVE Gone'
    BY <1>6 DEF Replied, Returns, Stage, Wait
  <1>7. ASSUME Refused PROVE Gone'
    BY <1>7 DEF Refused, Returns, Stage, Wait
  <1>8. ASSUME Garbled PROVE Gone'
    BY <1>8 DEF Garbled, Stage, Down
  <1>9. ASSUME Breaks PROVE Gone'
    BY <1>9 DEF Breaks, Returns, Stage, Wait, GivenUp, LastAttempt
  <1>10. ASSUME Resume PROVE Gone'
    BY <1>10 DEF Resume, NextAttempt
  <1>11. ASSUME Close PROVE Gone'
    BY <1>11 DEF Close, Post
  <1>12. ASSUME Start PROVE Gone'
    BY <1>12 DEF Start, Stage
  <1>13. ASSUME Signal PROVE Gone'
    BY <1>13 DEF Signal
  <1>14. ASSUME Crash PROVE Gone'
    BY <1>14 DEF Crash, Down, Stage, GivenUp
  <1>15. ASSUME Deliver PROVE Gone'
    BY <1>15 DEF Deliver, Effect, TakenBack
  <1>16. ASSUME LateArrives PROVE Gone'
    <2>1. PICK m \in late : /\ Effect(m.to, m.names) /\ m.names \subseteq Hashes
                           /\ revived' = (revived \/ m.to # "leave")
      BY <1>16 DEF LateArrives, Requests
    <2>2. UNCHANGED << at, flight, left >>
      BY <1>16 DEF LateArrives, processVars
    <2>3. m.to = "leave" => \A h \in Hashes : lease'[h] = 0
      BY <2>1 DEF Effect, TakenBack
    <2>4. CASE m.to = "leave"
      BY <2>2, <2>3, <2>4
    <2>5. CASE m.to # "leave"
      BY <2>1, <2>2, <2>5
    <2> QED
      BY <2>4, <2>5
  <1>17. ASSUME TrackerForgets PROVE Gone'
    BY <1>17 DEF TrackerForgets, processVars
  <1>18. ASSUME NEW h \in Hashes, RootChanges(h) PROVE Gone'
    BY <1>18 DEF RootChanges, processVars
  <1>19. ASSUME Tick PROVE Gone'
    BY <1>19 DEF Tick, Urgent, Less
  <1>20. CASE UNCHANGED vars
    BY <1>20 DEF vars, processVars
  <1> QED
    BY <1>1, <1>2, <1>3, <1>4, <1>5, <1>6, <1>7, <1>8, <1>9, <1>10,
       <1>11, <1>12, <1>13, <1>14, <1>15, <1>16, <1>17, <1>18, <1>19, <1>20
       DEF Next, Process, World

LEMMA Inductive == IndInv /\ [Next]_vars => IndInv'
  BY TypeStep, ShapeStep, RenewedStep, FreshStep, GoneStep DEF IndInv
-----------------------------------------------------------------------------
\* Every variable keeps its type, and no request is tried more than twice (_post).
THEOREM TypeCorrect == Spec => []TypeOK
  <1>1. IndInv => TypeOK
    BY DEF IndInv
  <1> QED
    BY <1>1, InitInv, Inductive, PTL DEF Spec

\* What the last announcement named stays listed until the next one is answered,
\* for any times that leave the TTL room for it (keepalive_loop, _post).
THEOREM StaysListed == Spec => []KeptListed
  <1>1. IndInv => KeptListed
    <2> SUFFICES ASSUME IndInv, NEW h \in kept PROVE h \in Listed
      BY DEF KeptListed
    <2>1. clock \in Nat /\ h \in Hashes /\ lease[h] \in Nat /\ lease[h] > clock + Ahead
      BY DEF IndInv, TypeOK, Renewed
    <2>2. Ahead \in Nat
      BY Times DEF Ahead, Rest
    <2> QED
      BY <2>1, <2>2 DEF Listed
  <1> QED
    BY <1>1, InitInv, Inductive, PTL DEF Spec

\* A listing outlives the agent or the file by less than a request with its
\* retries, its delay and the TTL (keepalive_loop, list_files).
THEOREM ListingsEnd == Spec => []ListingsLapse
  <1>1. IndInv => ListingsLapse
    <2> SUFFICES ASSUME IndInv, NEW h \in Hashes, lease[h] > 0 PROVE stale[h] < Outlives
      BY DEF ListingsLapse, Listed
    <2>1. stale[h] \in Nat /\ lease[h] \in Nat /\ stale[h] + lease[h] <= Outlives
      BY DEF IndInv, TypeOK, Fresh
    <2> QED
      BY <2>1, Times
  <1> QED
    BY <1>1, InitInv, Inductive, PTL DEF Spec

\* A shutdown that the tracker confirms takes back everything, until a request
\* of before arrives late (unregister).
THEOREM LeavesNothing == Spec => []CleanExit
  <1>1. IndInv => CleanExit
    BY DEF IndInv, Gone, CleanExit
  <1> QED
    BY <1>1, InitInv, Inductive, PTL DEF Spec
=============================================================================
