------------------------------ MODULE Identity ------------------------------
(***************************************************************************)
(* One agent's key file and the programs that begin with load_or_create:   *)
(* the agent itself, each time it starts, and the command line tools, all  *)
(* over one path with nothing to keep them apart.  A program that has its  *)
(* identity may make it known to the gateway.                              *)
(*                                                                         *)
(* A key is named by the program that generates it.  A file that exists    *)
(* and holds no key is one that was created and never filled.              *)
(***************************************************************************)
CONSTANTS
    Programs,  \* the runs of programs that use the key file
    NoKey      \* what a file holds that has been created and not filled

ASSUME IdentityAssumption == NoKey \notin Programs

VARIABLES
    exists,    \* there is a key file
    stored,    \* the key it holds
    at,        \* what each program does next
    identity,  \* the key each program goes by
    known,     \* keys the gateway has registered
    raced      \* history: two programs created the file at the same time

vars == << exists, stored, at, identity, known, raced >>

Init ==
    /\ exists = FALSE /\ stored = NoKey
    /\ at = [p \in Programs |-> "idle"]
    /\ identity = [p \in Programs |-> NoKey]
    /\ known = {} /\ raced = FALSE

Goto(p, a) == at' = [at EXCEPT ![p] = a]
-----------------------------------------------------------------------------
\* Whether there is a key file; mutants: one that can be loaded; never asked.
ExistsAndLoads == exists /\ stored # NoKey
NeverLooked == FALSE
Exists == exists

\* What decides between loading and creating is looked up once.
LoadOrCreate(p) ==
    /\ at[p] = "idle"
    /\ Goto(p, IF Exists THEN "load" ELSE "create")
    /\ raced' = (raced \/ (~Exists /\ \E q \in Programs : at[q] = "create"))
    /\ UNCHANGED << exists, stored, identity, known >>

\* Only what loads is a key; mutant: whatever the file holds.
AnythingLoads == TRUE
Loads == stored # NoKey

Load(p) ==
    /\ at[p] = "load" /\ Loads
    /\ identity' = [identity EXCEPT ![p] = stored]
    /\ Goto(p, "ready")
    /\ UNCHANGED << exists, stored, known, raced >>

LoadFails(p) ==
    /\ at[p] = "load"
    /\ Goto(p, "failed")
    /\ UNCHANGED << exists, stored, identity, known, raced >>

\* write_bytes creates or empties the file ...
OpenKeyFile(p) ==
    /\ at[p] = "create"
    /\ exists' = TRUE /\ stored' = NoKey
    /\ Goto(p, "fill")
    /\ UNCHANGED << identity, known, raced >>

\* ... and then fills it with the key generated before: all keys have the same
\* length, so of two that write it the later stays.
Fill(p) ==
    /\ at[p] = "fill"
    /\ stored' = p
    /\ Goto(p, "chmod")
    /\ UNCHANGED << exists, identity, known, raced >>

Chmod(p) ==
    /\ at[p] = "chmod"
    /\ identity' = [identity EXCEPT ![p] = p]
    /\ Goto(p, "ready")
    /\ UNCHANGED << exists, stored, known, raced >>

\* The disk or the permissions refuse, and the file stays as it is.
SaveFails(p) ==
    /\ at[p] \in {"create", "fill", "chmod"}
    /\ Goto(p, "failed")
    /\ UNCHANGED << exists, stored, identity, known, raced >>

\* A program may be killed wherever it is, and so may end one that is done.
Ends(p) ==
    /\ at[p] \notin {"idle", "failed"}
    /\ Goto(p, "failed")
    /\ identity' = [identity EXCEPT ![p] = NoKey]
    /\ UNCHANGED << exists, stored, known, raced >>

\* The gateway takes a key it knows already (409) like a new one; its reply may
\* be lost, and the agent goes on without.
Register(p) ==
    /\ at[p] = "ready"
    /\ \E arrives \in BOOLEAN :
          known' = IF arrives THEN known \cup {identity[p]} ELSE known
    /\ Goto(p, "done")
    /\ UNCHANGED << exists, stored, identity, raced >>
-----------------------------------------------------------------------------
Step(p) ==
    \/ LoadOrCreate(p) \/ Load(p) \/ LoadFails(p)
    \/ OpenKeyFile(p) \/ Fill(p) \/ Chmod(p) \/ SaveFails(p)
    \/ Register(p) \/ Ends(p)

Next == \E p \in Programs : Step(p)

Spec == Init /\ [][Next]_vars
-----------------------------------------------------------------------------
(* What must hold. *)

\* Every variable holds a value of its kind, and a program that is ready goes
\* by a key, never by a file that was not filled (_load).
TypeOK ==
    /\ exists \in BOOLEAN
    /\ stored \in Programs \cup {NoKey}
    /\ at \in [Programs -> {"idle", "load", "create", "fill", "chmod", "ready", "done",
                            "failed"}]
    /\ identity \in [Programs -> Programs \cup {NoKey}]
    /\ known \subseteq Programs
    /\ raced \in BOOLEAN
    /\ \A p \in Programs : at[p] \in {"ready", "done"} => identity[p] # NoKey

\* "A stable identity across restarts" (load_or_create): whoever goes by a key
\* goes by the one on disk, and that is the only one the gateway has come to
\* know, whatever programs were killed or failed on the way; unless two of them
\* created the file at the same time.
OneIdentity ==
    ~raced =>
        /\ \A p \in Programs : identity[p] \in {NoKey, stored}
        /\ known \subseteq {stored}

\* A key that is stored is never emptied or replaced, so that what others have
\* vouched for stays usable; with the same exception.
KeyIsKept == [][~raced' /\ stored # NoKey => stored' = stored]_vars
=============================================================================
