----------------------------- MODULE MemoryRuntime -----------------------------
(***************************************************************************)
(* The memory runtime (crates/agm-cli/src/runtime/memory.rs): processes,   *)
(* each on an .agm file, cache the project store of that file and the      *)
(* global store of the user, and write both back whole after each node and *)
(* after `agm mem gc`.  The two files are written one after the other,     *)
(* each by an atomic rename, and nothing locks them.                       *)
(*                                                                         *)
(* The node and session stores live and die inside one process and are     *)
(* left out, as are `delete` and `list`: the scheduler executes the `get`  *)
(* and `upsert` entries of a node only.                                    *)
(*                                                                         *)
(* A definition marked "variant" is not the code's: it is a plausible slip *)
(* in the definition after it, kept to show that a property notices it.    *)
(***************************************************************************)
EXTENDS Naturals

CONSTANTS
    Proc,     \* processes
    File,     \* .agm files
    FileOf,   \* the file each process works on
    Key,      \* memory keys
    Effects,  \* what the upserts of a node may be: functions of a set of places
              \* to the time to live
    MaxTime   \* bound on the clock

\* `session` is a time to live that no code acts on: it stays as `permanent`
\* does.  Durations are in ticks.
Ttl == [kind : {"permanent", "session", "duration"}, ticks : Nat]

Scope == {"project", "global"}

ASSUME MemoryAssumption ==
    /\ FileOf \in [Proc -> File]
    /\ \A e \in Effects :
          DOMAIN e \subseteq Scope \X Key /\ \A place \in DOMAIN e : e[place] \in Ttl
    /\ MaxTime \in Nat

VARIABLES
    now,      \* the clock
    project,  \* the .agm.mem sidecar of each file
    global,   \* ~/.agm/global.mem
    pc,       \* where each process is
    local,    \* the cached project store of each process
    shared    \* its cached global store

vars == <<now, project, global, pc, local, shared>>

Time == 0 .. MaxTime

\* An entry is its time to live and its two time stamps; its value is written
\* with them and never looked at.
Entry == [ttl : Ttl, created_at : Time, updated_at : Time]
None == [ttl |-> "none"]

\* A mem file: a time stamp and its entries.
MemFile == [updated_at : Time, entries : [Key -> Entry \cup {None}]]

EmptyMemFile(t) == [updated_at |-> t, entries |-> [k \in Key |-> None]]

TypeOK ==
    /\ now \in Time
    /\ project \in [File -> MemFile]
    /\ global \in MemFile
    /\ pc \in [Proc -> {"idle", "load_global", "gc", "work", "flush_project",
                        "flush_global", "gc_flush_project", "gc_flush_global"}]
    /\ local \in [Proc -> MemFile]
    /\ shared \in [Proc -> MemFile]

Init ==
    /\ now = 0
    /\ project = [f \in File |-> EmptyMemFile(0)]
    /\ global = EmptyMemFile(0)
    /\ pc = [p \in Proc |-> "idle"]
    /\ local = [p \in Proc |-> EmptyMemFile(0)]
    /\ shared = [p \in Proc |-> EmptyMemFile(0)]

Goto(p, label) == pc' = [pc EXCEPT ![p] = label]

-------------------------------------------------------------------------------
(***************************************************************************)
(* MemoryRuntime::new                                                      *)
(***************************************************************************)
LoadProject(p) ==
    /\ pc[p] = "idle"
    /\ local' = [local EXCEPT ![p] = project[FileOf[p]]]
    /\ Goto(p, "load_global")
    /\ UNCHANGED <<now, project, global, shared>>

\* then it is `agm mem gc` or a run
LoadGlobal(p) ==
    /\ pc[p] = "load_global"
    /\ shared' = [shared EXCEPT ![p] = global]
    /\ \E next \in {"gc", "work"} : Goto(p, next)
    /\ UNCHANGED <<now, project, global, local>>

-------------------------------------------------------------------------------
(***************************************************************************)
(* upsert, expire                                                          *)
(***************************************************************************)
\* variants: an update is a new entry; an update keeps both time stamps
UpsertNew(mf, k, ttl) ==
    [updated_at |-> now,
     entries |-> [mf.entries EXCEPT ![k] =
                    [ttl |-> ttl, created_at |-> now, updated_at |-> now]]]

UpsertInPlace(mf, k, ttl) ==
    [updated_at |-> now,
     entries |-> [mf.entries EXCEPT ![k] =
                    [ttl |-> ttl,
                     created_at |-> IF @ = None THEN now ELSE @.created_at,
                     updated_at |-> IF @ = None THEN now ELSE @.updated_at]]]

Upsert(mf, k, ttl) ==
    [updated_at |-> now,
     entries |-> [mf.entries EXCEPT ![k] =
                    [ttl |-> ttl, updated_at |-> now,
                     created_at |-> IF @ = None THEN now ELSE @.created_at]]]

\* the upserts of one scope
Apply(mf, scope, effect) ==
    LET keys == {k \in Key : <<scope, k>> \in DOMAIN effect}
    IN  IF keys = {} THEN mf
        ELSE [updated_at |-> now,
              entries |-> [k \in Key |->
                  IF k \in keys THEN Upsert(mf, k, effect[<<scope, k>>]).entries[k]
                                ELSE mf.entries[k]]]

\* A node has ended with success, or with failure and no upserts.
EndNode(p) ==
    /\ pc[p] = "work"
    /\ \E effect \in Effects :
          /\ local' = [local EXCEPT ![p] = Apply(@, "project", effect)]
          /\ shared' = [shared EXCEPT ![p] = Apply(@, "global", effect)]
    /\ Goto(p, "flush_project")
    /\ UNCHANGED <<now, project, global>>

IsExpired(e) == e.ttl.kind = "duration" /\ now - e.updated_at >= e.ttl.ticks

Expire(mf) ==
    LET gone == {k \in Key : mf.entries[k] # None /\ IsExpired(mf.entries[k])}
    IN  [updated_at |-> IF gone = {} THEN mf.updated_at ELSE now,
         entries |-> [k \in Key |-> IF k \in gone THEN None ELSE mf.entries[k]]]

Gc(p) ==
    /\ pc[p] = "gc"
    /\ local' = [local EXCEPT ![p] = Expire(@)]
    /\ shared' = [shared EXCEPT ![p] = Expire(@)]
    /\ Goto(p, "gc_flush_project")
    /\ UNCHANGED <<now, project, global>>

-------------------------------------------------------------------------------
(***************************************************************************)
(* flush                                                                   *)
(***************************************************************************)
FlushProject(p) ==
    /\ pc[p] \in {"flush_project", "gc_flush_project"}
    /\ local' = [local EXCEPT ![p].updated_at = now]
    /\ shared' = [shared EXCEPT ![p].updated_at = now]
    /\ project' = [project EXCEPT ![FileOf[p]] = local'[p]]
    /\ Goto(p, IF pc[p] = "flush_project" THEN "flush_global" ELSE "gc_flush_global")
    /\ UNCHANGED <<now, global>>

Exit(p) ==
    /\ Goto(p, "idle")
    /\ local' = [local EXCEPT ![p] = EmptyMemFile(0)]
    /\ shared' = [shared EXCEPT ![p] = EmptyMemFile(0)]

\* After it a run goes on with the next node, and gc is over.
FlushGlobal(p) ==
    /\ pc[p] \in {"flush_global", "gc_flush_global"}
    /\ global' = shared[p]
    /\ IF pc[p] = "flush_global"
       THEN Goto(p, "work") /\ UNCHANGED <<local, shared>>
       ELSE Exit(p)
    /\ UNCHANGED <<now, project>>

EndRun(p) ==
    /\ pc[p] = "work"
    /\ Exit(p)
    /\ UNCHANGED <<now, project, global>>

\* The process is killed, or a write fails before its rename.
Stop(p) ==
    /\ pc[p] # "idle"
    /\ Exit(p)
    /\ UNCHANGED <<now, project, global>>

Tick ==
    /\ now < MaxTime
    /\ now' = now + 1
    /\ UNCHANGED <<project, global, pc, local, shared>>

Next ==
    \/ \E p \in Proc :
          \/ LoadProject(p) \/ LoadGlobal(p)
          \/ EndNode(p) \/ Gc(p)
          \/ FlushProject(p) \/ FlushGlobal(p)
          \/ EndRun(p) \/ Stop(p)
    \/ Tick

Spec == Init /\ [][Next]_vars

-------------------------------------------------------------------------------
(***************************************************************************)
(* Properties                                                              *)
(***************************************************************************)
\* From one content of a mem file to the next no entry is lost: it stays, or
\* has a successor that keeps its date of creation, or has run out.
Keeps(old, new) ==
    \A k \in Key : old.entries[k] # None =>
        \/ new.entries[k] = old.entries[k]
        \/ /\ new.entries[k] # None
           /\ new.entries[k].created_at = old.entries[k].created_at
           /\ new.entries[k].updated_at >= old.entries[k].updated_at
        \/ new.entries[k] = None /\ IsExpired(old.entries[k])

\* Section 28.5 of docs/spec: project memory persists across executions.
ProjectMemoryIsDurable == [][\A f \in File : Keeps(project[f], project'[f])]_vars

\* What appears in a mem file is younger than the content it replaces: no flush
\* brings back an entry that was updated or collected meanwhile.
NoStaleEntryReturns ==
    [][\A f \in File, k \in Key :
          project'[f].entries[k] \notin {None, project[f].entries[k]}
          => project'[f].entries[k].updated_at >= project[f].updated_at]_vars
===============================================================================
