----------------------------- MODULE AgentLife -----------------------------
(***************************************************************************)
(* The life of one agent process (run in main.py) and the listings of its  *)
(* files at the tracker: it announces what its storage root holds, renews  *)
(* that every KEEPALIVE_INTERVAL, and takes it back when it is told to     *)
(* stop.  Requests are tried again as in TrackerClient._post; one that the *)
(* client has given up may still arrive, even after a later one.  The      *)
(* process may be killed and started again.                                *)
(*                                                                         *)
(* Time passes in ticks, and only while nothing the event loop would do at *)
(* once is left to do.  The tracker is outside the repository: it lists an *)
(* agent for a file until TTL ticks after the last request that named it.  *)
(***************************************************************************)
EXTENDS Naturals, FiniteSets

CONSTANTS
    Hashes,      \* the files that may lie in the storage root
    Interval,    \* KEEPALIVE_INTERVAL
    Timeout,     \* the longest one attempt of a request takes
    Backoff,     \* the wait after a first attempt
    BindTime,    \* the longest Endpoint.bind takes
    TTL,         \* how long the tracker keeps a listing
    Late         \* how much later than given up a request may arrive

MaxRetries == 2

\* The longest a request takes: two attempts and the wait between them.
RequestTime == Timeout + Backoff + Timeout

ASSUME LifeAssumption ==
    /\ {Interval, Timeout, Backoff, Late} \subseteq Nat \ {0}
    /\ BindTime \in Nat
    /\ TTL \in Nat /\ TTL > Timeout + BindTime + Interval + RequestTime

VARIABLES
    at,         \* where the process is
    signalled,  \* shutdown_event
    clock,      \* what is left of the wait, the pause or the time-out
    flight,     \* how far the request under way is
    attempt,    \* which attempt it is
    body,       \* the files it names
    root,       \* the files in the storage root
    lease,      \* the tracker's: for how long it still lists each file
    late,       \* requests the client has given up and the tracker may yet get
    kept,       \* history: what the last announcement to arrive named, less what
                \* has left the root since; nothing, if that announcement failed in
                \* the end or anything else has touched the listings
    stale,      \* history: how long ago the agent last held each file
    left,       \* history: the tracker has confirmed to this process that it left
    revived     \* history: since it began, a request given up has listed it

processVars == << at, signalled, clock, flight, attempt, body >>
vars == << processVars, root, lease, late, kept, stale, left, revived >>

Listed == {h \in Hashes : lease[h] > 0}
Posting == {"announce", "renew", "leave"}

\* How long a listing can outlive the file or the agent.
Outlives == RequestTime + Late + TTL

Init ==
    /\ at = "down" /\ signalled = FALSE /\ clock = 0
    /\ flight = "none" /\ attempt = 1 /\ body = {}
    /\ root \in SUBSET Hashes
    /\ lease = [h \in Hashes |-> 0]
    /\ late = {} /\ kept = {}
    /\ stale = [h \in Hashes |-> Outlives]
    /\ left = FALSE /\ revived = FALSE

\* The process goes to a stage that lasts at most n ticks, with no request.
Stage(st, n) ==
    /\ at' = st /\ clock' = n
    /\ flight' = "none" /\ attempt' = 1 /\ body' = {}

\* It goes to a stage that sends a request about the files in b.
Post(st, b) ==
    /\ at' = st /\ clock' = Timeout
    /\ flight' = "sent" /\ attempt' = 1 /\ body' = b

Down == Stage("down", 0) /\ signalled' = FALSE /\ kept' = {}

\* The files an unregister takes back: all of them; mutant: those in the root.
TakenBackFromRoot == root
TakenBack == Hashes

\* What the tracker does with a request: it lists the agent for the files named
\* anew, or forgets it for those taken back.
Effect(st, b) ==
    lease' = [h \in Hashes |->
        IF st = "leave" THEN IF h \in TakenBack THEN 0 ELSE lease[h]
        ELSE IF h \in b THEN TTL ELSE lease[h]]

\* The files whose presence the agent sees now.
Seen == stale' = [h \in Hashes |-> IF h \in root THEN 0 ELSE stale[h]]
-----------------------------------------------------------------------------
(* Starting. *)

\* The identity, the clients and the storage are set up; that the gateway does
\* not register the agent stops nothing.
Start ==
    /\ at = "down"
    /\ Stage("start", 0) /\ left' = FALSE /\ revived' = FALSE
    /\ UNCHANGED << signalled, root, lease, late, kept, stale >>

\* list_files, and what it names is announced, if anything: before the endpoint
\* is bound.
Announce ==
    /\ at = "start" /\ Seen
    /\ IF root = {} THEN Stage("bind", BindTime) ELSE Post("announce", root)
    /\ UNCHANGED << signalled, root, lease, late, kept, left, revived >>

\* The endpoint is bound, the control API started, and the loop entered.
Bind ==
    /\ at = "bind"
    /\ Stage("wait", Interval)
    /\ UNCHANGED << signalled, root, lease, late, kept, stale, left, revived >>
-----------------------------------------------------------------------------
(* The keepalive loop. *)

\* Handlers are there from before the endpoint is bound.
Signal ==
    /\ at \in {"bind", "wait", "renew"} /\ ~signalled
    /\ signalled' = TRUE
    /\ UNCHANGED << at, clock, flight, attempt, body, root, lease, late, kept, stale, left,
                    revived >>

\* The wait, or the loop's condition, sees the event.
Wake ==
    /\ at = "wait" /\ signalled
    /\ Stage("close", 0) /\ kept' = {}
    /\ UNCHANGED << signalled, root, lease, late, stale, left, revived >>

\* What a keepalive names: what is in the root now; mutant: what it knows to be
\* listed, too.
NamesKnown == root \cup Listed
Names == root

\* How long the loop waits between keepalives; mutant: as long as a listing lasts.
WaitForLease == TTL
Wait == Interval

\* The wait has timed out: list_files again, and a keepalive unless it is empty.
Due ==
    /\ at = "wait" /\ clock = 0 /\ Seen
    /\ IF Names = {} THEN Stage("wait", Wait) ELSE Post("renew", Names)
    /\ UNCHANGED << signalled, root, lease, late, kept, left, revived >>

\* list_files raises OSError, which nothing catches before the finally.
ListFails ==
    /\ at = "wait" /\ clock = 0
    /\ Stage("close", 0) /\ kept' = {}
    /\ UNCHANGED << signalled, root, lease, late, stale, left, revived >>
-----------------------------------------------------------------------------
(* Requests to the tracker (_post). *)

Deliver ==
    /\ flight = "sent"
    /\ flight' = "done" /\ Effect(at, body)
    /\ kept' = body \cap root
    /\ UNCHANGED << at, signalled, clock, attempt, body, root, late, stale, left, revived >>

\* The call returns, or raises TrackerError, which is logged either way.
Returns(ok) ==
    /\ CASE at = "announce" -> Stage("bind", BindTime) /\ UNCHANGED signalled
         [] at = "renew"    -> Stage("wait", Wait) /\ UNCHANGED signalled
         [] at = "leave"    -> Stage("down", 0) /\ signalled' = FALSE
    /\ kept' = IF ok THEN kept ELSE {}
    /\ left' = (ok /\ at = "leave")

Replied ==
    /\ flight = "done" /\ Returns(TRUE)
    /\ UNCHANGED << root, lease, late, stale, revived >>

\* Another status than 200, from the tracker or from something before it.
Refused ==
    /\ flight \in {"sent", "done"} /\ Returns(FALSE)
    /\ UNCHANGED << root, lease, late, stale, revived >>

\* The reply is not what the client expects: no TrackerError.  It ends run
\* where it is; only the loop has a finally.
Garbled ==
    /\ flight = "done"
    /\ IF at = "renew" THEN Stage("close", 0) /\ kept' = {} /\ UNCHANGED signalled
       ELSE Down
    /\ UNCHANGED << root, lease, late, stale, left, revived >>

\* A request given up may have been lost, or be still on its way.
GivenUp ==
    \/ UNCHANGED late
    \/ /\ flight = "sent"
       /\ late' = late \cup {[to |-> at, names |-> body, life |-> Late]}

\* No attempt after this one; mutant: one more.
LastAttemptLate == attempt > MaxRetries
LastAttempt == attempt = MaxRetries

\* A transport error, at the latest when the client times out.
Breaks ==
    /\ flight \in {"sent", "done"} /\ GivenUp
    /\ IF LastAttempt THEN Returns(FALSE)
       ELSE /\ flight' = "pause" /\ clock' = Backoff * attempt
            /\ UNCHANGED << at, signalled, attempt, body, kept, left >>
    /\ UNCHANGED << root, lease, stale, revived >>

\* The mutant does not count.
NextAttemptSame == attempt
NextAttempt == attempt + 1

Resume ==
    /\ flight = "pause" /\ clock = 0
    /\ flight' = "sent" /\ clock' = Timeout /\ attempt' = NextAttempt
    /\ UNCHANGED << at, signalled, body, root, lease, late, kept, stale, left, revived >>
-----------------------------------------------------------------------------
(* Ending. *)

\* The endpoint is closed before the tracker is told.
Close ==
    /\ at = "close"
    /\ Post("leave", {})
    /\ UNCHANGED << signalled, root, lease, late, kept, stale, left, revived >>

\* The process is killed, or an exception ends it that no finally sees: out of
\* bind, out of the finally itself.
Crash ==
    /\ at # "down" /\ Down /\ GivenUp
    /\ UNCHANGED << root, lease, stale, left, revived >>
-----------------------------------------------------------------------------
(* The rest of the world. *)

\* Downloads and the ingest tool bring files, failing downloads remove them.
RootChanges(h) ==
    /\ root' = IF h \in root THEN root \ {h} ELSE root \cup {h}
    /\ kept' = kept \ {h}
    /\ UNCHANGED << processVars, lease, late, stale, left, revived >>

LateArrives ==
    \E m \in late :
        /\ Effect(m.to, m.names) /\ late' = late \ {m}
        /\ kept' = IF m.to = "leave" THEN {} ELSE kept
        /\ revived' = (revived \/ m.to # "leave")
        /\ UNCHANGED << processVars, root, stale, left >>

TrackerForgets ==
    /\ Listed # {}
    /\ lease' = [h \in Hashes |-> 0] /\ kept' = {}
    /\ UNCHANGED << processVars, root, late, stale, left, revived >>

\* What happens at once does not wait for time to pass.
Urgent ==
    \/ at = "wait" /\ (signalled \/ clock = 0)
    \/ at \in Posting \cup {"bind"} /\ clock = 0

Less(n) == IF n = 0 THEN 0 ELSE n - 1

Tick ==
    /\ ~Urgent
    /\ clock' = Less(clock)
    /\ lease' = [h \in Hashes |-> Less(lease[h])]
    /\ late' = {[m EXCEPT !.life = @ - 1] : m \in {n \in late : n.life > 1}}
    /\ stale' = [h \in Hashes |->
          IF at # "down" /\ h \in root THEN 0
          ELSE IF stale[h] < Outlives THEN stale[h] + 1 ELSE Outlives]
    /\ UNCHANGED << at, signalled, flight, attempt, body, root, kept, left, revived >>
-----------------------------------------------------------------------------
Process ==
    \/ Announce \/ Bind \/ Wake \/ Due \/ ListFails
    \/ Replied \/ Refused \/ Garbled \/ Breaks \/ Resume \/ Close

World ==
    \/ Start \/ Signal \/ Crash
    \/ Deliver \/ LateArrives \/ TrackerForgets
    \/ \E h \in Hashes : RootChanges(h)

Next == Process \/ World \/ Tick

Spec == Init /\ [][Next]_vars

\* The event loop runs what can run, a client gives up at its time-out, and time
\* goes on; nobody else owes anything.
FairSpec == Spec /\ WF_vars(Process) /\ WF_vars(Tick)
-----------------------------------------------------------------------------
(* What must hold. *)

Requests == [to : Posting, names : SUBSET Hashes, life : 1..Late]

\* Every variable holds a value of its kind, and no request is tried more than
\* MAX_RETRIES times (_post).
TypeOK ==
    /\ at \in {"down", "start", "bind", "wait", "close"} \cup Posting
    /\ signalled \in BOOLEAN
    /\ clock \in Nat
    /\ flight \in {"none", "sent", "done", "pause"}
    /\ attempt \in 1..MaxRetries
    /\ body \subseteq Hashes /\ root \subseteq Hashes /\ kept \subseteq Hashes
    /\ lease \in [Hashes -> 0..TTL]
    /\ late \subseteq Requests
    /\ stale \in [Hashes -> 0..Outlives]
    /\ left \in BOOLEAN /\ revived \in BOOLEAN

\* An agent that keeps announcing stays listed: what its last announcement named
\* with success is listed until the next one is answered, although an attempt of
\* it may fail and the reply, the endpoint and the attempts all take their time
\* (keepalive_loop, _post; "re-registration resets TTL").
KeptListed == kept \subseteq Listed

\* Nobody is sent for long to an agent that has gone or to a file that was
\* removed: a listing outlives them by no more than one request with its
\* retries, its delay and the tracker's TTL (keepalive_loop, list_files).
ListingsLapse == \A h \in Listed : stale[h] < Outlives

\* A shutdown that the tracker confirms takes back everything, whatever the root
\* holds by then, until a request of before arrives late (unregister).
CleanExit == left /\ ~revived => Listed = {}

\* An agent that is told to stop does, whatever the tracker does or fails to do.
ShutdownCompletes == signalled ~> at = "down"
=============================================================================
