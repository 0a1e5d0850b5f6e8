-------------------------- MODULE MemoryRuntimeProofs --------------------------
(***************************************************************************)
(* What holds of MemoryRuntime for any number of processes, files, keys,   *)
(* upserts and ticks of the clock: its types, and, if no two processes     *)
(* work on the same .agm file, that project memory lasts.                  *)
(***************************************************************************)
EXTENDS MemoryRuntime, TLAPS

-------------------------------------------------------------------------------
(***************************************************************************)
(* Mem files                                                               *)
(***************************************************************************)
\* No entry of the file is dated after now.
Past(mf) == \A k \in Key : mf.entries[k] # None => mf.entries[k].updated_at <= now

\* What the file holds that `old` does not is younger than `old`.
Fresh(old, mf) ==
    \A k \in Key : mf.entries[k] \notin {None, old.entries[k]}
                   => mf.entries[k].updated_at >= old.updated_at

LEMMA TimeType == Time \subseteq Nat /\ 0 \in Time
  BY MemoryAssumption DEF Time

LEMMA NoneIsNoEntry == None \notin Entry
  BY DEF None, Entry

LEMMA MemFileType ==
    ASSUME NEW mf \in MemFile, NEW t \in Time, NEW entries \in [Key -> Entry \cup {None}]
    PROVE  /\ [updated_at |-> t, entries |-> entries] \in MemFile
           /\ [mf EXCEPT !.updated_at = t] \in MemFile
           /\ [mf EXCEPT !.updated_at = t].entries = mf.entries
           /\ [mf EXCEPT !.updated_at = t].updated_at = t
  BY DEF MemFile

LEMMA EmptyMemFileType == EmptyMemFile(0) \in MemFile /\ EmptyMemFile(0).updated_at = 0
                          /\ \A k \in Key : EmptyMemFile(0).entries[k] = None
  BY TimeType DEF EmptyMemFile, MemFile

\* An upsert dates an entry now and keeps its date of creation.
LEMMA UpsertEntry ==
    ASSUME NEW mf \in MemFile, NEW k \in Key, NEW ttl \in Ttl, now \in Time
    PROVE  LET e == Upsert(mf, k, ttl).entries[k]
           IN  /\ e \in Entry /\ e.updated_at = now
               /\ mf.entries[k] # None => e.created_at = mf.entries[k].created_at
  <1> DEFINE old == mf.entries[k]
             e == [ttl |-> ttl, updated_at |-> now,
                   created_at |-> IF old = None THEN now ELSE old.created_at]
  <1>1. mf.entries \in [Key -> Entry \cup {None}]
    BY DEF MemFile
  <1>2. Upsert(mf, k, ttl).entries[k] = e
    BY <1>1 DEF Upsert
  <1>3. e \in Entry
    BY <1>1 DEF Entry
  <1> QED
    BY <1>2, <1>3

\* The upserts of a node lose nothing, and what they write is dated now.
LEMMA ApplyKeeps ==
    ASSUME NEW mf \in MemFile, Past(mf), NEW scope \in Scope, NEW effect \in Effects, now \in Time
    PROVE  LET new == Apply(mf, scope, effect)
           IN  /\ new \in MemFile /\ Past(new) /\ Keeps(mf, new)
               /\ \A k \in Key : \/ new.entries[k] = mf.entries[k]
                                 \/ new.entries[k] \in Entry /\ new.entries[k].updated_at = now
  <1> DEFINE new == Apply(mf, scope, effect)
             keys == {k \in Key : <<scope, k>> \in DOMAIN effect}
             Written(k) == Upsert(mf, k, effect[<<scope, k>>]).entries[k]
  <1>1. mf.entries \in [Key -> Entry \cup {None}]
    BY DEF MemFile
  <1>2. ASSUME NEW k \in keys
        PROVE  /\ Written(k) \in Entry /\ Written(k).updated_at = now
               /\ mf.entries[k] # None => Written(k).created_at = mf.entries[k].created_at
    BY <1>2, UpsertEntry, MemoryAssumption
  <1>3. CASE keys = {}
    <2>1. new = mf
      BY <1>3 DEF Apply
    <2> QED
      BY <2>1 DEF Keeps
  <1>4. CASE keys # {}
    <2>1. new = [updated_at |-> now,
                 entries |-> [k \in Key |-> IF k \in keys THEN Written(k) ELSE mf.entries[k]]]
      BY <1>4 DEF Apply
    <2> HIDE DEF new, keys, Written
    <2>2. \A k \in Key : new.entries[k] = IF k \in keys THEN Written(k) ELSE mf.entries[k]
      BY <2>1
    <2>3. new \in MemFile
      BY <1>1, <1>2, <2>1 DEF MemFile
    <2>4. Past(new)
      BY <1>2, <2>2, TimeType DEF Past
    <2>5. Keeps(mf, new)
      <3> SUFFICES ASSUME NEW k \in Key, mf.entries[k] # None, k \in keys
                   PROVE  /\ new.entries[k] # None
                          /\ new.entries[k].created_at = mf.entries[k].created_at
                          /\ new.entries[k].updated_at >= mf.entries[k].updated_at
        BY <2>2 DEF Keeps
      <3>1. mf.entries[k].updated_at <= now /\ mf.entries[k] \in Entry
        BY <1>1 DEF Past
      <3> QED
        BY <1>2, <2>2, <3>1, NoneIsNoEntry, TimeType DEF Entry
    <2> QED
      BY <1>2, <2>2, <2>3, <2>4, <2>5 DEF new
  <1> QED
    BY <1>3, <1>4

\* Collection only removes what has run out.
LEMMA ExpireKeeps ==
    ASSUME NEW mf \in MemFile, Past(mf), now \in Time
    PROVE  LET new == Expire(mf)
           IN  /\ new \in MemFile /\ Past(new) /\ Keeps(mf, new)
               /\ \A k \in Key : new.entries[k] \in {None, mf.entries[k]}
  <1> DEFINE new == Expire(mf)
             gone == {k \in Key : mf.entries[k] # None /\ IsExpired(mf.entries[k])}
  <1>1. mf.entries \in [Key -> Entry \cup {None}] /\ mf.updated_at \in Time
    BY DEF MemFile
  <1>2. new = [updated_at |-> IF gone = {} THEN mf.updated_at ELSE now,
               entries |-> [k \in Key |-> IF k \in gone THEN None ELSE mf.entries[k]]]
    BY DEF Expire
  <1>3. \A k \in gone : IsExpired(mf.entries[k])
    OBVIOUS
  <1> HIDE DEF new, gone
  <1>4. \A k \in Key : new.entries[k] = IF k \in gone THEN None ELSE mf.entries[k]
    BY <1>2
  <1>5. new \in MemFile
    BY <1>1, <1>2 DEF MemFile
  <1>6. Past(new) /\ Keeps(mf, new)
    BY <1>3, <1>4 DEF Past, Keeps
  <1> QED
    BY <1>4, <1>5, <1>6 DEF new

-------------------------------------------------------------------------------
(***************************************************************************)
(* Types                                                                   *)
(***************************************************************************)
\* The stored files and the caches hold nothing that is dated after now.
StampInv ==
    /\ \A f \in File : project[f].updated_at <= now /\ Past(project[f])
    /\ Past(global)
    /\ \A p \in Proc : Past(local[p]) /\ Past(shared[p])

TypeInv == TypeOK /\ StampInv

\* A step that keeps the clock, and whose files are typed and not of the future.
LEMMA SameTimeTypes ==
    ASSUME TypeInv, now' = now, pc' \in [Proc -> {"idle", "load_global", "gc", "work",
               "flush_project", "flush_global", "gc_flush_project", "gc_flush_global"}],
           project' \in [File -> MemFile], global' \in MemFile,
           local' \in [Proc -> MemFile], shared' \in [Proc -> MemFile],
           \A f \in File : project'[f].updated_at <= now /\ Past(project'[f]),
           Past(global'), \A p \in Proc : Past(local'[p]) /\ Past(shared'[p])
    PROVE  TypeInv'
  BY DEF TypeInv, TypeOK, StampInv, Past

\* The caches of one process change, and nothing that is stored.
LEMMA CacheTypes ==
    ASSUME TypeInv, NEW p \in Proc, NEW pm \in MemFile, NEW gm \in MemFile, Past(pm), Past(gm),
           NEW label \in {"idle", "load_global", "gc", "work", "flush_project", "flush_global",
                          "gc_flush_project", "gc_flush_global"},
           Goto(p, label), local' = [local EXCEPT ![p] = pm], shared' = [shared EXCEPT ![p] = gm],
           UNCHANGED <<now, project>>, global' \in {global, gm}
    PROVE  TypeInv'
  <1>1. /\ local' \in [Proc -> MemFile] /\ shared' \in [Proc -> MemFile]
        /\ \A q \in Proc : Past(local'[q]) /\ Past(shared'[q])
    BY DEF TypeInv, TypeOK, StampInv
  <1>2. global' \in MemFile /\ Past(global')
    BY DEF TypeInv, TypeOK, StampInv
  <1>3. \A f \in File : project'[f].updated_at <= now /\ Past(project'[f])
    BY DEF TypeInv, StampInv
  <1> QED
    BY <1>1, <1>2, <1>3, SameTimeTypes DEF TypeInv, TypeOK, Goto

LEMMA EmptyPast == Past(EmptyMemFile(0))
  BY EmptyMemFileType DEF Past

LEMMA ExitTypes ==
    ASSUME TypeInv, NEW p \in Proc, Exit(p), UNCHANGED <<now, project>>,
           global' \in {global, shared[p]}
    PROVE  TypeInv'
  <1>1. global' \in MemFile /\ Past(global')
    BY DEF TypeInv, TypeOK, StampInv
  <1>2. /\ local' \in [Proc -> MemFile] /\ shared' \in [Proc -> MemFile]
        /\ \A q \in Proc : Past(local'[q]) /\ Past(shared'[q])
    BY EmptyMemFileType, EmptyPast DEF Exit, TypeInv, TypeOK, StampInv
  <1>3. \A f \in File : project'[f].updated_at <= now /\ Past(project'[f])
    BY DEF TypeInv, StampInv
  <1> QED
    BY <1>1, <1>2, <1>3, SameTimeTypes DEF TypeInv, TypeOK, Exit, Goto

LEMMA FlushTypes ==
    ASSUME TypeInv, NEW p \in Proc, FlushProject(p)
    PROVE  TypeInv'
  <1> DEFINE pm == [local[p] EXCEPT !.updated_at = now]
             gm == [shared[p] EXCEPT !.updated_at = now]
  <1>0. /\ FileOf[p] \in File /\ now \in Time /\ local[p] \in MemFile /\ shared[p] \in MemFile
        /\ local \in [Proc -> MemFile] /\ shared \in [Proc -> MemFile]
        /\ project \in [File -> MemFile] /\ global \in MemFile
    BY MemoryAssumption DEF TypeInv, TypeOK
  <1>1. /\ local' = [local EXCEPT ![p] = pm] /\ shared' = [shared EXCEPT ![p] = gm]
        /\ project' = [project EXCEPT ![FileOf[p]] = pm]
        /\ UNCHANGED <<now, global>>
    BY <1>0 DEF FlushProject
  <1>2. /\ pm \in MemFile /\ gm \in MemFile /\ pm.updated_at = now
        /\ pm.entries = local[p].entries /\ gm.entries = shared[p].entries
    BY <1>0 DEF MemFile
  <1>3. Past(pm) /\ Past(gm)
    BY <1>2 DEF Past, TypeInv, StampInv
  <1>4. pc' \in [Proc -> {"idle", "load_global", "gc", "work",
               "flush_project", "flush_global", "gc_flush_project", "gc_flush_global"}]
    BY DEF FlushProject, Goto, TypeInv, TypeOK
  <1>5. \A f \in File : project'[f].updated_at <= now /\ Past(project'[f])
    BY <1>0, <1>1, <1>2, <1>3, TimeType DEF TypeInv, StampInv
  <1> HIDE DEF pm, gm
  <1>6. /\ project' \in [File -> MemFile] /\ local' \in [Proc -> MemFile]
        /\ shared' \in [Proc -> MemFile]
        /\ \A q \in Proc : Past(local'[q]) /\ Past(shared'[q])
    BY <1>0, <1>1, <1>2, <1>3 DEF TypeInv, StampInv
  <1>7. Past(global') /\ global' \in MemFile
    BY <1>0, <1>1 DEF TypeInv, StampInv
  <1> QED
    BY <1>1, <1>4, <1>5, <1>6, <1>7, SameTimeTypes

LEMMA NextTypes == TypeInv /\ [Next]_vars => TypeInv'
  <1> SUFFICES ASSUME TypeInv, [Next]_vars PROVE TypeInv'
    OBVIOUS
  <1>1. ASSUME NEW p \in Proc, LoadProject(p)
        PROVE  TypeInv'
    <2>1. project[FileOf[p]] \in MemFile /\ Past(project[FileOf[p]])
      BY MemoryAssumption DEF TypeInv, TypeOK, StampInv
    <2>2. shared[p] \in MemFile /\ Past(shared[p]) /\ shared' = [shared EXCEPT ![p] = shared[p]]
      BY <1>1 DEF LoadProject, TypeInv, TypeOK, StampInv
    <2> QED
      BY <1>1, <2>1, <2>2, CacheTypes DEF LoadProject
  <1>2. ASSUME NEW p \in Proc, LoadGlobal(p)
        PROVE  TypeInv'
    <2>1. global \in MemFile /\ Past(global)
      BY DEF TypeInv, TypeOK, StampInv
    <2>2. local[p] \in MemFile /\ Past(local[p]) /\ local' = [local EXCEPT ![p] = local[p]]
      BY <1>2 DEF LoadGlobal, TypeInv, TypeOK, StampInv
    <2> QED
      BY <1>2, <2>1, <2>2, CacheTypes DEF LoadGlobal
  <1>3. ASSUME NEW p \in Proc, EndNode(p)
        PROVE  TypeInv'
    <2>1. PICK effect \in Effects :
             /\ local' = [local EXCEPT ![p] = Apply(local[p], "project", effect)]
             /\ shared' = [shared EXCEPT ![p] = Apply(shared[p], "global", effect)]
      BY <1>3 DEF EndNode, TypeInv, TypeOK
    <2>2. /\ local[p] \in MemFile /\ Past(local[p]) /\ shared[p] \in MemFile /\ Past(shared[p])
          /\ now \in Time
      BY DEF TypeInv, TypeOK, StampInv
    <2>3. /\ Apply(local[p], "project", effect) \in MemFile
          /\ Past(Apply(local[p], "project", effect))
      BY <2>2, ApplyKeeps DEF Scope
    <2>4. /\ Apply(shared[p], "global", effect) \in MemFile
          /\ Past(Apply(shared[p], "global", effect))
      BY <2>2, ApplyKeeps DEF Scope
    <2> QED
      BY <1>3, <2>1, <2>3, <2>4, CacheTypes DEF EndNode
  <1>4. ASSUME NEW p \in Proc, Gc(p)
        PROVE  TypeInv'
    <2>1. /\ local[p] \in MemFile /\ Past(local[p]) /\ shared[p] \in MemFile /\ Past(shared[p])
          /\ now \in Time
      BY DEF TypeInv, TypeOK, StampInv
    <2>2. /\ Expire(local[p]) \in MemFile /\ Past(Expire(local[p]))
          /\ Expire(shared[p]) \in MemFile /\ Past(Expire(shared[p]))
      BY <2>1, ExpireKeeps
    <2>3. /\ local' = [local EXCEPT ![p] = Expire(local[p])]
          /\ shared' = [shared EXCEPT ![p] = Expire(shared[p])]
      BY <1>4 DEF Gc, TypeInv, TypeOK
    <2> QED
      BY <1>4, <2>2, <2>3, CacheTypes DEF Gc
  <1>5. ASSUME NEW p \in Proc, FlushGlobal(p) \/ EndRun(p) \/ Stop(p)
        PROVE  TypeInv'
    <2>1. CASE Exit(p)
      BY <1>5, <2>1, ExitTypes DEF FlushGlobal, EndRun, Stop
    <2>2. CASE FlushGlobal(p) /\ Goto(p, "work") /\ UNCHANGED <<local, shared>>
      <3>1. /\ local[p] \in MemFile /\ Past(local[p]) /\ shared[p] \in MemFile /\ Past(shared[p])
            /\ local' = [local EXCEPT ![p] = local[p]] /\ shared' = [shared EXCEPT ![p] = shared[p]]
        BY <2>2 DEF TypeInv, TypeOK, StampInv
      <3> QED
        BY <2>2, <3>1, CacheTypes DEF FlushGlobal
    <2> QED
      BY <1>5, <2>1, <2>2 DEF FlushGlobal, EndRun, Stop
  <1>6. CASE Tick
    <2>1. now \in Nat /\ now' = now + 1 /\ now' \in Time /\ UNCHANGED <<project, global, pc, local, shared>>
      BY <1>6, MemoryAssumption DEF Tick, TypeInv, TypeOK, Time
    <2>2. ASSUME NEW mf \in MemFile, Past(mf)
          PROVE  \A k \in Key : mf.entries[k] # None => mf.entries[k].updated_at <= now'
      <3> SUFFICES ASSUME NEW k \in Key, mf.entries[k] # None
                   PROVE  mf.entries[k].updated_at <= now'
        OBVIOUS
      <3>1. mf.entries[k].updated_at <= now /\ mf.entries[k].updated_at \in Nat
        BY <2>2, TimeType DEF Past, MemFile, Entry
      <3> QED
        BY <2>1, <3>1
    <2>3. ASSUME NEW f \in File
          PROVE  project[f].updated_at <= now'
      <3>1. project[f].updated_at <= now /\ project[f].updated_at \in Nat
        BY TimeType DEF TypeInv, TypeOK, StampInv, MemFile
      <3> QED
        BY <2>1, <3>1
    <2> QED
      BY <2>1, <2>2, <2>3 DEF TypeInv, TypeOK, StampInv, Past
  <1>7. CASE UNCHANGED vars
    BY <1>7 DEF vars, TypeInv, TypeOK, StampInv, Past
  <1> QED
    BY <1>1, <1>2, <1>3, <1>4, <1>5, <1>6, <1>7, FlushTypes DEF Next

LEMMA AlwaysTyped == Spec => []TypeInv
  <1>1. Init => TypeInv
    <2> SUFFICES ASSUME Init PROVE TypeInv
      OBVIOUS
    <2>1. TypeOK
      BY EmptyMemFileType, TimeType DEF Init, TypeOK
    <2>2. StampInv
      BY EmptyMemFileType, EmptyPast DEF Init, StampInv
    <2> QED
      BY <2>1, <2>2 DEF TypeInv
  <1> QED
    BY <1>1, NextTypes, PTL DEF Spec

\* The stores and the caches are mem files in every reachable state: upserts,
\* collection, flushes and kills write nothing else.
THEOREM TypeCorrect == Spec => []TypeOK
  <1>1. TypeInv => TypeOK
    BY DEF TypeInv
  <1> QED
    BY <1>1, AlwaysTyped, PTL

-------------------------------------------------------------------------------
(***************************************************************************)
(* Project memory lasts                                                    *)
(***************************************************************************)
\* No two processes work on the same .agm file.  Two that did would overwrite each
\* other's store whole, each from the cache it read when it started.
OnePerFile == \A p, q \in Proc : FileOf[p] = FileOf[q] => p = q

Store(p) == project[FileOf[p]]

Flushing == {"flush_project", "gc_flush_project"}

\* The cache of a process is its file, but for what the node or the collection
\* that it is about to flush has done.
InSync(p) == local[p].entries = Store(p).entries

CacheInv ==
    \A p \in Proc :
       /\ pc[p] \notin Flushing \cup {"idle"} => InSync(p)
       /\ pc[p] \in Flushing => Keeps(Store(p), local[p]) /\ Fresh(Store(p), local[p])

LEMMA SameCache ==
    ASSUME CacheInv, UNCHANGED now, NEW q \in Proc, local'[q] = local[q], Store(q)' = Store(q),
           pc'[q] = pc[q]
    PROVE  /\ pc'[q] \notin Flushing \cup {"idle"} => InSync(q)'
           /\ pc'[q] \in Flushing => Keeps(Store(q), local[q])' /\ Fresh(Store(q), local[q])'
  BY DEF CacheInv, InSync, Keeps, Fresh, IsExpired

\* A step of one process that stores no project memory.
LEMMA OthersSame ==
    ASSUME TypeInv, CacheInv, NEW p \in Proc, UNCHANGED <<now, project>>,
           \A q \in Proc : q # p => local'[q] = local[q] /\ pc'[q] = pc[q],
           pc'[p] \notin Flushing \cup {"idle"} => InSync(p)',
           pc'[p] \in Flushing => Keeps(Store(p), local[p])' /\ Fresh(Store(p), local[p])'
    PROVE  CacheInv'
  <1>1. \A q \in Proc : Store(q)' = Store(q)
    BY DEF Store
  <1> QED
    BY <1>1, SameCache DEF CacheInv

\* The clock lets entries run out, and never takes that back.
LEMMA KeepsLater ==
    ASSUME NEW old \in MemFile, NEW mf \in MemFile, Keeps(old, mf), now \in Nat, now' = now + 1
    PROVE  \A k \in Key : old.entries[k] # None =>
              \/ mf.entries[k] = old.entries[k]
              \/ /\ mf.entries[k] # None
                 /\ mf.entries[k].created_at = old.entries[k].created_at
                 /\ mf.entries[k].updated_at >= old.entries[k].updated_at
              \/ mf.entries[k] = None /\ IsExpired(old.entries[k])'
  <1> SUFFICES ASSUME NEW k \in Key, old.entries[k] # None, IsExpired(old.entries[k])
               PROVE  IsExpired(old.entries[k])'
    BY DEF Keeps
  <1>1. old.entries[k] \in Entry
    BY DEF MemFile
  <1>2. /\ old.entries[k].updated_at \in Nat
        /\ old.entries[k].ttl.ticks \in Nat /\ old.entries[k].ttl.kind = "duration"
        /\ now - old.entries[k].updated_at >= old.entries[k].ttl.ticks
    BY <1>1, TimeType DEF Entry, Ttl, IsExpired
  <1>3. now' - old.entries[k].updated_at >= old.entries[k].ttl.ticks
    BY <1>2
  <1> QED
    BY <1>2, <1>3 DEF IsExpired

LEMMA CacheStays == OnePerFile => (TypeInv /\ CacheInv /\ [Next]_vars => CacheInv')
  <1> SUFFICES ASSUME OnePerFile, TypeInv, CacheInv, [Next]_vars PROVE CacheInv'
    OBVIOUS
  <1>0. /\ pc \in [Proc -> {"idle", "load_global", "gc", "work", "flush_project",
                             "flush_global", "gc_flush_project", "gc_flush_global"}]
        /\ local \in [Proc -> MemFile] /\ project \in [File -> MemFile]
        /\ FileOf \in [Proc -> File] /\ now \in Time
    BY MemoryAssumption DEF TypeInv, TypeOK
  <1>1. ASSUME NEW p \in Proc, LoadProject(p)
        PROVE  CacheInv'
    <2>1. /\ local' = [local EXCEPT ![p] = Store(p)] /\ Goto(p, "load_global")
          /\ UNCHANGED <<now, project>>
      BY <1>1 DEF LoadProject, Store
    <2>2. InSync(p)' /\ pc'[p] = "load_global"
      BY <1>0, <2>1 DEF InSync, Store, Goto
    <2> QED
      BY <1>0, <2>1, <2>2, OthersSame DEF Goto, Flushing
  <1>2. ASSUME NEW p \in Proc, LoadGlobal(p) \/ (FlushGlobal(p) /\ ~Exit(p))
        PROVE  CacheInv'
    <2>1. PICK label \in {"gc", "work"} : Goto(p, label)
      BY <1>2 DEF LoadGlobal, FlushGlobal
    <2>2. UNCHANGED <<now, project, local>> /\ InSync(p)
      BY <1>2 DEF LoadGlobal, FlushGlobal, CacheInv, Flushing
    <2> QED
      BY <1>0, <2>1, <2>2, OthersSame DEF Goto, Flushing, InSync, Store
  <1>3. ASSUME NEW p \in Proc, EndNode(p)
        PROVE  CacheInv'
    <2>1. PICK effect \in Effects : local' = [local EXCEPT ![p] = Apply(local[p], "project", effect)]
      BY <1>0, <1>3 DEF EndNode
    <2>2. InSync(p) /\ Goto(p, "flush_project") /\ UNCHANGED <<now, project>>
      BY <1>3 DEF EndNode, CacheInv, Flushing
    <2>3. local'[p] = Apply(local[p], "project", effect) /\ pc'[p] = "flush_project"
      BY <1>0, <2>1, <2>2 DEF Goto
    <2>4. /\ Keeps(local[p], local'[p])
          /\ \A k \in Key : local'[p].entries[k] = local[p].entries[k]
                               \/ local'[p].entries[k].updated_at = now
      BY <1>0, <2>3, ApplyKeeps DEF Scope, TypeInv, StampInv
    <2>5. Store(p).updated_at <= now
      BY <1>0 DEF Store, TypeInv, StampInv
    <2>6. Keeps(Store(p), local'[p]) /\ Fresh(Store(p), local'[p])
      BY <2>2, <2>4, <2>5, <1>0, TimeType DEF Keeps, Fresh, InSync, Store, MemFile
    <2>7. Keeps(Store(p), local[p])' /\ Fresh(Store(p), local[p])'
      BY <2>2, <2>6 DEF Keeps, Fresh, IsExpired, Store
    <2> QED
      BY <1>0, <2>1, <2>2, <2>3, <2>7, OthersSame DEF Goto, Flushing
  <1>4. ASSUME NEW p \in Proc, Gc(p)
        PROVE  CacheInv'
    <2>1. /\ local' = [local EXCEPT ![p] = Expire(local[p])] /\ InSync(p)
          /\ Goto(p, "gc_flush_project") /\ UNCHANGED <<now, project>>
      BY <1>0, <1>4 DEF Gc, CacheInv, Flushing
    <2>2. local'[p] = Expire(local[p]) /\ pc'[p] = "gc_flush_project"
      BY <1>0, <2>1 DEF Goto
    <2>3. Keeps(local[p], local'[p]) /\ \A k \in Key : local'[p].entries[k] \in {None, local[p].entries[k]}
      BY <1>0, <2>2, ExpireKeeps DEF TypeInv, StampInv
    <2>4. Keeps(Store(p), local'[p]) /\ Fresh(Store(p), local'[p])
      BY <2>1, <2>3 DEF Keeps, Fresh, InSync
    <2>5. Keeps(Store(p), local[p])' /\ Fresh(Store(p), local[p])'
      BY <2>1, <2>4 DEF Keeps, Fresh, IsExpired, Store
    <2> QED
      BY <1>0, <2>1, <2>2, <2>5, OthersSame DEF Goto, Flushing
  <1>5. ASSUME NEW p \in Proc, FlushProject(p)
        PROVE  CacheInv'
    <2>1. /\ project' = [project EXCEPT ![FileOf[p]] = local'[p]] /\ now' = now
          /\ local' = [local EXCEPT ![p].updated_at = now]
          /\ Goto(p, IF pc[p] = "flush_project" THEN "flush_global" ELSE "gc_flush_global")
      BY <1>5 DEF FlushProject
    <2>2. InSync(p)' /\ pc'[p] \in {"flush_global", "gc_flush_global"}
      BY <1>0, <2>1 DEF InSync, Store, Goto
    <2>3. ASSUME NEW q \in Proc, q # p
          PROVE  local'[q] = local[q] /\ pc'[q] = pc[q] /\ Store(q)' = Store(q)
      BY <1>0, <2>1, <2>3 DEF Goto, Store, OnePerFile
    <2> QED
      BY <2>1, <2>2, <2>3, SameCache DEF CacheInv, Flushing
  <1>6. ASSUME NEW p \in Proc, UNCHANGED <<now, project>>, Exit(p)
        PROVE  CacheInv'
    BY <1>0, <1>6, OthersSame DEF Exit, Goto, Flushing
  <1>7. CASE Tick
    <2>1. now \in Nat /\ now' = now + 1 /\ UNCHANGED <<project, pc, local>>
      BY <1>0, <1>7, TimeType DEF Tick
    <2>2. ASSUME NEW p \in Proc, pc[p] \in Flushing
          PROVE  Keeps(Store(p), local[p])'
      <3>1. Store(p) \in MemFile /\ local[p] \in MemFile /\ Keeps(Store(p), local[p])
        BY <1>0, <2>2 DEF Store, CacheInv
      <3> QED
        BY <2>1, <3>1, KeepsLater DEF Keeps, Store
    <2> QED
      BY <2>1, <2>2 DEF CacheInv, InSync, Fresh, Store
  <1>8. CASE UNCHANGED vars
    BY <1>8, SameCache DEF vars, CacheInv, Store
  <1> QED
    BY <1>1, <1>2, <1>3, <1>4, <1>5, <1>6, <1>7, <1>8 DEF Next, FlushGlobal, EndRun, Stop

LEMMA AlwaysInSync == ASSUME OnePerFile PROVE Spec => []CacheInv
  <1>1. Init => CacheInv
    BY DEF Init, CacheInv, Flushing
  <1> QED
    BY <1>1, CacheStays, OnePerFile, AlwaysTyped, PTL DEF Spec

\* What a flush stores, seen from what it replaces.
LEMMA FlushKeeps ==
    ASSUME OnePerFile, TypeInv, CacheInv, [Next]_vars, NEW f \in File
    PROVE  Keeps(project[f], project'[f]) /\ Fresh(project[f], project'[f])
  <1>1. CASE project'[f] = project[f]
    BY <1>1 DEF Keeps, Fresh
  <1>2. CASE project'[f] # project[f]
    <2>0. project \in [File -> MemFile] /\ local \in [Proc -> MemFile] /\ FileOf \in [Proc -> File]
      BY MemoryAssumption DEF TypeInv, TypeOK
    <2>1. PICK p \in Proc : FlushProject(p)
      BY <1>2 DEF Next, vars, LoadProject, LoadGlobal, EndNode, Gc, FlushGlobal, EndRun, Stop, Tick
    <2>2. /\ f = FileOf[p] /\ project'[f] = local'[p]
          /\ local'[p] = [local[p] EXCEPT !.updated_at = now]
      BY <1>2, <2>0, <2>1 DEF FlushProject
    <2>3. project'[f].entries = local[p].entries
      BY <2>0, <2>2 DEF MemFile
    <2>4. Keeps(project[f], local[p]) /\ Fresh(project[f], local[p])
      BY <2>1, <2>2 DEF FlushProject, CacheInv, Flushing, Store
    <2> QED
      BY <2>3, <2>4 DEF Keeps, Fresh
  <1> QED
    BY <1>1, <1>2

\* Project memory persists across executions, through upserts, collections, kills
\* and the passing of time: an entry is only ever replaced by a later write that
\* keeps its date of creation, or removed when its time to live is over.
THEOREM ProjectMemoryLasts == ASSUME OnePerFile PROVE Spec => ProjectMemoryIsDurable
  <1>1. TypeInv /\ CacheInv /\ [Next]_vars => [\A f \in File : Keeps(project[f], project'[f])]_vars
    BY OnePerFile, FlushKeeps
  <1> QED
    BY <1>1, AlwaysTyped, AlwaysInSync, OnePerFile, PTL DEF Spec, ProjectMemoryIsDurable

\* No flush brings back what was updated or collected in the meantime: all that is
\* new in a project store is younger than the store it replaces.
THEOREM NoEntryReturns == ASSUME OnePerFile PROVE Spec => NoStaleEntryReturns
  <1>1. TypeInv /\ CacheInv /\ [Next]_vars =>
           [\A f \in File, k \in Key :
               project'[f].entries[k] \notin {None, project[f].entries[k]}
               => project'[f].entries[k].updated_at >= project[f].updated_at]_vars
    BY OnePerFile, FlushKeeps DEF Fresh
  <1> QED
    BY <1>1, AlwaysTyped, AlwaysInSync, OnePerFile, PTL DEF Spec, NoStaleEntryReturns
===============================================================================
