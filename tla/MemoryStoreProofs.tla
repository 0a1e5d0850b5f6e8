--------------------------- MODULE MemoryStoreProofs ---------------------------
(***************************************************************************)
(* What holds of MemoryStore for every set of handles, configurations,     *)
(* keys and files that are merged in: its types, and that signatures stay  *)
(* with their text and caches with the file.                               *)
(***************************************************************************)
EXTENDS MemoryStore, TLAPS

-------------------------------------------------------------------------------
(***************************************************************************)
(* Types                                                                   *)
(***************************************************************************)
Signatures == [key : HmacKey, text : Entries] \cup {Absent}

Raw == [exists : BOOLEAN, entries : Entries, trailer : Signatures]

HandleType == [pc : {"closed", "verify", "open", "sign", "write"}, cache : Entries,
               raw : Raw, mem : Entries, fresh : BOOLEAN]

\* TypeOK leaves out what a handle has read and not verified yet.
TypeInv ==
    /\ disk \in Raw /\ sigfile \in Signatures
    /\ handle \in [Handle -> HandleType]
    /\ writer \in Handle \cup {Nobody}

\* Every change of a cache leaves at most one entry for each key.
LEMMA EntriesStayEntries ==
    ASSUME NEW e \in Entries
    PROVE  /\ {} \in Entries
           /\ \A k \in Key : With(e, k, Own) \in Entries /\ Without(e, k) \in Entries
           /\ \A f \in Files : \A keys \in SUBSET {k \in DOMAIN f : f[k] # Big} :
                 Overwrite(e, f, keys) \in Entries
  <1>1. {} \in Entries
    BY DEF Entries
  <1>2. \A k \in Key : With(e, k, Own) \in Entries /\ Without(e, k) \in Entries
    BY DEF Entries, With, Without, Value
  <1>3. ASSUME NEW f \in Files, NEW keys \in SUBSET {k \in DOMAIN f : f[k] # Big}
        PROVE  Overwrite(e, f, keys) \in Entries
    <2>1. \A k \in keys : k \in Key /\ f[k] \in Value
      BY MemoryStoreAssumption
    <2>2. \A x \in Pairs(f) : x = <<x[1], f[x[1]]>>
      BY DEF Pairs
    <2>3. \A x \in Overwrite(e, f, keys) :
             \/ x \in e /\ x[1] \notin keys
             \/ x = <<x[1], f[x[1]]>> /\ x[1] \in keys
      BY <2>2 DEF Overwrite
    <2>4. Overwrite(e, f, keys) \subseteq Key \X Value
      BY <2>1, <2>3 DEF Entries
    <2>5. \A x, y \in Overwrite(e, f, keys) : x[1] = y[1] => x = y
      BY <2>3 DEF Entries
    <2> QED
      BY <2>4, <2>5 DEF Entries
  <1> QED
    BY <1>1, <1>2, <1>3

LEMMA ClosedType == Closed \in HandleType
  BY DEF Closed, HandleType, Raw, Signatures, NoFile, Entries

LEMMA ClosedFields ==
    /\ Closed.pc = "closed" /\ Closed.mem = Closed.cache /\ Closed.fresh = FALSE
    /\ \A pc : /\ [Closed EXCEPT !.pc = pc].pc = pc
               /\ [Closed EXCEPT !.pc = pc].mem = [Closed EXCEPT !.pc = pc].cache
               /\ [Closed EXCEPT !.pc = pc].fresh = FALSE
    /\ \A pc, cache : /\ [Closed EXCEPT !.pc = pc, !.cache = cache].pc = pc
                      /\ [Closed EXCEPT !.pc = pc, !.cache = cache].fresh = FALSE
  BY DEF Closed

\* A signature of a handle that signs is one of its active key.
LEMMA SignatureType ==
    ASSUME NEW h \in Handle, TypeInv, Signs(h)
    PROVE  Signature(h) \in Signatures /\ Config[h].active \in HmacKey
  BY MemoryStoreAssumption DEF Signs, ConfigType, TypeInv, HandleType, Signature, Sign, Signatures

\* A step of one handle that touches no file.
LEMMA HandleTypes ==
    ASSUME TypeInv, NEW h \in Handle, NEW new \in HandleType,
           handle' = [handle EXCEPT ![h] = new], UNCHANGED <<disk, sigfile, writer>>
    PROVE  TypeInv'
  BY DEF TypeInv

LEMMA InitTypes == Init => TypeInv
  BY ClosedType DEF Init, TypeInv, NoFile, Raw, Signatures, Entries

LEMMA NextTypes == TypeInv /\ [Next]_vars => TypeInv'
  <1> SUFFICES ASSUME TypeInv, [Next]_vars PROVE TypeInv'
    OBVIOUS
  <1>0. \A h \in Handle : handle[h] \in HandleType /\ handle[h].cache \in Entries
    BY DEF TypeInv, HandleType
  <1>1. ASSUME NEW h \in Handle, ReadFile(h) PROVE TypeInv'
    <2>1. [handle[h] EXCEPT !.pc = "verify", !.raw = disk] \in HandleType
      BY <1>0 DEF TypeInv, HandleType
    <2>2. handle' = [handle EXCEPT ![h] = [handle[h] EXCEPT !.pc = "verify", !.raw = disk]]
      BY <1>1 DEF ReadFile, TypeInv
    <2> QED
      BY <1>1, <2>1, <2>2, HandleTypes DEF ReadFile
  <1>2. ASSUME NEW h \in Handle, Verify(h) PROVE TypeInv'
    <2>1. [Closed EXCEPT !.pc = "open", !.cache = handle[h].raw.entries] \in HandleType
      BY <1>0, ClosedType DEF HandleType, Raw
    <2>2. PICK new \in HandleType : handle' = [handle EXCEPT ![h] = new]
      BY <1>2, <2>1, ClosedType DEF Verify
    <2> QED
      BY <1>2, <2>2, HandleTypes DEF Verify
  <1>3. ASSUME NEW h \in Handle, Create(h) \/ Close(h) \/ WriteFails(h) PROVE TypeInv'
    <2>1. /\ [Closed EXCEPT !.pc = "sign"] \in HandleType
          /\ [Closed EXCEPT !.pc = "open"] \in HandleType
          /\ [Closed EXCEPT !.pc = "open", !.cache = handle[h].cache] \in HandleType
      BY <1>0, ClosedType DEF HandleType
    <2>2. PICK new \in HandleType : handle' = [handle EXCEPT ![h] = new]
      BY <1>3, <2>1, ClosedType DEF Create, Close, WriteFails
    <2> QED
      BY <1>3, <2>2, HandleTypes DEF Create, Close, WriteFails
  <1>4. ASSUME NEW h \in Handle, NEW k \in Key, Upsert(h, k) \/ Delete(h, k) PROVE TypeInv'
    <2>1. \A e \in Entries : Saving(h, e) \in HandleType
      BY <1>0 DEF Saving, HandleType
    <2>2. PICK e \in Entries : handle' = [handle EXCEPT ![h] = Saving(h, e)]
      BY <1>0, <1>4, EntriesStayEntries DEF Upsert, Delete
    <2> QED
      BY <1>4, <2>1, <2>2, HandleTypes DEF Upsert, Delete
  <1>5. ASSUME NEW h \in Handle, NEW f \in Files, NEW s, Merge(h, f, s) PROVE TypeInv'
    <2>1. \A e \in Entries : Saving(h, e) \in HandleType
      BY <1>0 DEF Saving, HandleType
    <2>2. Considered(h, f, s) \in SUBSET {k \in DOMAIN f : f[k] # Big}
      BY <1>5 DEF Merge, Considered
    <2>3. Overwrite(handle[h].cache, f, Considered(h, f, s)) \in Entries
      BY <1>0, <2>2, EntriesStayEntries
    <2>4. handle' = [handle EXCEPT
                        ![h] = Saving(h, Overwrite(handle[h].cache, f, Considered(h, f, s)))]
      BY <1>5 DEF Merge
    <2> QED
      BY <1>5, <2>1, <2>3, <2>4, HandleTypes DEF Merge
  <1>6. ASSUME NEW h \in Handle, NEW f \in Files, NEW s, MergeStops(h, f, s) PROVE TypeInv'
    <2>1. PICK before \in SUBSET {k \in Considered(h, f, s) : f[k] # Big} :
             handle' = [handle EXCEPT ![h].cache = Overwrite(@, f, before), ![h].fresh = FALSE]
      BY <1>6 DEF MergeStops
    <2>2. before \in SUBSET {k \in DOMAIN f : f[k] # Big}
      BY DEF Considered
    <2>3. Overwrite(handle[h].cache, f, before) \in Entries
      BY <1>0, <2>2, EntriesStayEntries
    <2> DEFINE new == [handle[h] EXCEPT !.cache = Overwrite(handle[h].cache, f, before),
                                        !.fresh = FALSE]
    <2>4. new \in HandleType
      BY <1>0, <2>3 DEF HandleType
    <2>5. handle' = [handle EXCEPT ![h] = new]
      BY <2>1 DEF TypeInv
    <2> QED
      BY <1>6, <2>4, <2>5, HandleTypes DEF MergeStops
  <1>7. ASSUME NEW h \in Handle, ApplySigning(h) PROVE TypeInv'
    <2>1. Detached(h) => Signature(h) \in Signatures
      BY SignatureType DEF Detached
    <2> QED
      BY <1>7, <2>1 DEF ApplySigning, Goto, TypeInv, HandleType
  <1>8. ASSUME NEW h \in Handle, WriteBody(h) PROVE TypeInv'
    <2>1. handle[h].mem \in Entries
      BY <1>0 DEF HandleType
    <2>2. disk' \in Raw
      BY <1>8, <2>1, SignatureType DEF WriteBody, Written, Raw, Signatures
    <2>3. [Closed EXCEPT !.pc = "open", !.cache = handle[h].cache, !.fresh = TRUE] \in HandleType
      BY <1>0, ClosedType DEF HandleType
    <2> QED
      BY <1>8, <2>2, <2>3 DEF WriteBody, TypeInv
  <1>9. ASSUME NEW k \in Key, RuntimeFlush(k) PROVE TypeInv'
    <2>1. With(disk.entries, k, Own) \in Entries
      BY EntriesStayEntries DEF TypeInv, Raw
    <2> QED
      BY <1>9, <2>1 DEF RuntimeFlush, Written, TypeInv, Raw, Signatures
  <1>10. CASE UNCHANGED vars
    BY <1>10 DEF vars, TypeInv
  <1> QED
    BY <1>1, <1>2, <1>3, <1>4, <1>5, <1>6, <1>7, <1>8, <1>9, <1>10 DEF Next

LEMMA AlwaysTyped == Spec => []TypeInv
  BY InitTypes, NextTypes, PTL DEF Spec

\* Every variable has its type, whatever is merged in, killed or fails: in
\* particular no cache and no file ever has two entries for a key.
THEOREM TypeCorrect == Spec => []TypeOK
  <1>1. TypeInv => TypeOK
    BY DEF TypeInv, TypeOK, Raw, Signatures, HandleType
  <1> QED
    BY <1>1, AlwaysTyped, PTL
-------------------------------------------------------------------------------
(***************************************************************************)
(* The last line of the file                                               *)
(***************************************************************************)
\* The signature on the last line of the file is always that of the text above
\* it and of a known key, for any number of handles, configurations, kills and
\* failing writes: text and last line are one rename, and `agm run`, which
\* does not sign, takes the line away.
THEOREM TrailersSignTheirBody == Spec => []TrailerSignsItsBody
  <1>1. Init => TrailerSignsItsBody
    BY DEF Init, TrailerSignsItsBody, NoFile
  <1>2. TypeInv /\ TrailerSignsItsBody /\ [Next]_vars => TrailerSignsItsBody'
    <2> SUFFICES ASSUME TypeInv, TrailerSignsItsBody, [Next]_vars
                 PROVE  TrailerSignsItsBody'
      OBVIOUS
    <2>1. CASE disk' = disk
      BY <2>1 DEF TrailerSignsItsBody
    <2>2. ASSUME NEW h \in Handle, WriteBody(h) PROVE TrailerSignsItsBody'
      BY <2>2, SignatureType DEF WriteBody, Written, Signature, Sign, TrailerSignsItsBody
    <2>3. ASSUME NEW k \in Key, RuntimeFlush(k) PROVE TrailerSignsItsBody'
      BY <2>3 DEF RuntimeFlush, Written, TrailerSignsItsBody
    <2> QED
      BY <2>1, <2>2, <2>3
         DEF Next, vars, ReadFile, Verify, Create, Close, ApplySigning, WriteFails, Upsert,
             Delete, Merge, MergeStops
  <1> QED
    BY <1>1, <1>2, AlwaysTyped, PTL DEF Spec

-------------------------------------------------------------------------------
(***************************************************************************)
(* Saved files                                                             *)
(*                                                                         *)
(* A save is two steps apart from the change it saves: the invariant       *)
(* carries the cache to the text that will be written (`mem`), and the     *)
(* separate signature, which is on disk before the text, to the text.      *)
(***************************************************************************)
\* Two handles with a separate signature would replace each other's between
\* the signature and the text.
OneSeparateSignature == \A g, h \in Handle : Detached(g) /\ Detached(h) => g = h

SavedBy(h) ==
    /\ handle[h].cache = disk.entries
    /\ disk.trailer = IF Signs(h) /\ ~Detached(h) THEN Sign(Config[h].active, disk.entries)
                      ELSE Absent
    /\ OneSeparateSignature /\ Detached(h) => sigfile = Sign(Config[h].active, disk.entries)

SaveInv ==
    \A h \in Handle :
        /\ handle[h].pc \in {"sign", "write"} => handle[h].mem = handle[h].cache
        /\ OneSeparateSignature /\ handle[h].pc = "write" /\ Detached(h) =>
              sigfile = Signature(h)
        /\ (handle[h].pc = "open" /\ handle[h].fresh /\ writer = h) => SavedBy(h)

\* A step of one handle that touches no file and does not make it look saved.
LEMMA HandleSaves ==
    ASSUME TypeInv, SaveInv, NEW h \in Handle,
           \A g \in Handle \ {h} : handle'[g] = handle[g],
           UNCHANGED <<disk, sigfile, writer>>,
           handle'[h].pc # "write",
           handle'[h].pc = "sign" => handle'[h].mem = handle'[h].cache,
           handle'[h].pc = "open" => handle'[h].fresh = FALSE
    PROVE  SaveInv'
  BY DEF SaveInv, SavedBy, Signature, Detached, Signs

LEMMA NextSaves ==
    ASSUME TypeInv, SaveInv, [Next]_vars
    PROVE  SaveInv'
  <1>0. handle \in [Handle -> HandleType]
    BY DEF TypeInv
  <1>1. ASSUME NEW h \in Handle,
               \/ ReadFile(h) \/ Verify(h) \/ Create(h) \/ Close(h) \/ WriteFails(h)
               \/ \E k \in Key : Upsert(h, k) \/ Delete(h, k)
               \/ \E f \in Files, s \in {"latest_wins", "union", "reject"} :
                     Merge(h, f, s) \/ MergeStops(h, f, s)
        PROVE  SaveInv'
    <2>1. /\ \A g \in Handle \ {h} : handle'[g] = handle[g]
          /\ UNCHANGED <<disk, sigfile, writer>>
      BY <1>0, <1>1
         DEF ReadFile, Verify, Create, Close, WriteFails, Upsert, Delete, Merge, MergeStops
    <2>2. /\ handle'[h].pc # "write"
          /\ handle'[h].pc = "sign" => handle'[h].mem = handle'[h].cache
          /\ handle'[h].pc = "open" => handle'[h].fresh = FALSE
      <3>1. CASE ReadFile(h)
        BY <1>0, <3>1 DEF ReadFile, HandleType
      <3>2. CASE Verify(h)
        BY <1>0, <3>2 DEF Verify, Closed
      <3>3. CASE Create(h) \/ Close(h) \/ WriteFails(h)
        <4>1. CASE \E pc \in {"sign", "open"} : handle'[h] = [Closed EXCEPT !.pc = pc]
          BY <4>1, ClosedFields
        <4>2. CASE handle'[h] = Closed
          BY <4>2, ClosedFields
        <4>3. CASE handle'[h] = [Closed EXCEPT !.pc = "open", !.cache = handle[h].cache]
          BY <4>3, ClosedFields
        <4> QED
          BY <1>0, <3>3, <4>1, <4>2, <4>3 DEF Create, Close, WriteFails
      <3>4. CASE \E k \in Key : Upsert(h, k) \/ Delete(h, k)
        <4>1. \E e : handle'[h] = Saving(h, e)
          BY <1>0, <3>4 DEF Upsert, Delete
        <4> QED
          BY <1>0, <4>1 DEF Saving, HandleType
      <3>5. CASE \E f \in Files, s \in {"latest_wins", "union", "reject"} : Merge(h, f, s)
        BY <1>0, <3>5 DEF Merge, Saving, HandleType
      <3>6. CASE \E f \in Files, s \in {"latest_wins", "union", "reject"} : MergeStops(h, f, s)
        <4>1. PICK f \in Files, s \in {"latest_wins", "union", "reject"} : MergeStops(h, f, s)
          BY <3>6
        <4>2. PICK before : handle' = [handle EXCEPT ![h].cache = Overwrite(@, f, before),
                                                     ![h].fresh = FALSE]
          BY <4>1 DEF MergeStops
        <4> QED
          BY <1>0, <4>1, <4>2 DEF MergeStops, HandleType
      <3> QED
        BY <1>1, <3>1, <3>2, <3>3, <3>4, <3>5, <3>6
    <2> QED
      BY <2>1, <2>2, HandleSaves
  <1>2. ASSUME NEW h \in Handle, ApplySigning(h) PROVE SaveInv'
    <2>1. /\ \A g \in Handle \ {h} : handle'[g] = handle[g]
          /\ handle'[h] = [handle[h] EXCEPT !.pc = "write"]
          /\ handle[h].pc = "sign" /\ disk' = disk
      BY <1>0, <1>2 DEF ApplySigning, Goto
    <2>2. handle[h] \in HandleType
      BY <1>0
    <2>3. /\ handle'[h].pc = "write" /\ handle'[h].mem = handle[h].mem
          /\ handle'[h].cache = handle[h].cache
      BY <2>1, <2>2 DEF HandleType
    <2>4. CASE Detached(h)
      <3>1. sigfile' = Signature(h) /\ writer' = h
        BY <1>2, <2>4 DEF ApplySigning
      <3>2. OneSeparateSignature => \A g \in Handle \ {h} : ~Detached(g)
        BY <2>4 DEF OneSeparateSignature
      <3>3. handle'[h].mem = handle'[h].cache /\ sigfile' = Signature(h)'
        BY <2>1, <2>3, <3>1 DEF SaveInv, Signature
      <3>4. ASSUME NEW g \in Handle \ {h}
            PROVE  /\ handle'[g].pc \in {"sign", "write"} => handle'[g].mem = handle'[g].cache
                   /\ writer' # g
        BY <2>1, <3>1 DEF SaveInv
      <3> QED
        BY <2>3, <3>2, <3>3, <3>4 DEF SaveInv, Detached, Signs
    <2>5. CASE ~Detached(h)
      <3>1. UNCHANGED <<sigfile, writer>>
        BY <1>2, <2>5 DEF ApplySigning
      <3> QED
        BY <2>1, <2>3, <2>5, <3>1 DEF SaveInv, SavedBy, Signature, Detached, Signs
    <2> QED
      BY <2>4, <2>5
  <1>3. ASSUME NEW h \in Handle, WriteBody(h) PROVE SaveInv'
    <2>1. /\ \A g \in Handle \ {h} : handle'[g] = handle[g]
          /\ handle[h].pc = "write" /\ handle[h].mem = handle[h].cache
          /\ handle'[h].pc = "open" /\ handle'[h].cache = handle[h].cache
          /\ disk' = Written(handle[h].mem, IF Signs(h) /\ ~Detached(h) THEN Signature(h)
                                            ELSE Absent)
          /\ writer' = h /\ sigfile' = sigfile
      BY <1>0, <1>3 DEF WriteBody, SaveInv, Closed
    <2>2. OneSeparateSignature /\ Detached(h) => sigfile = Signature(h)
      BY <2>1 DEF SaveInv
    <2>3. SavedBy(h)'
      BY <2>1, <2>2 DEF SavedBy, Written, Signature, Detached, Signs
    <2> QED
      BY <2>1, <2>3 DEF SaveInv, Signature, Detached, Signs
  <1>4. ASSUME NEW k \in Key, RuntimeFlush(k) PROVE SaveInv'
    BY <1>4, MemoryStoreAssumption DEF RuntimeFlush, SaveInv, Signature, Detached, Signs
  <1>5. CASE UNCHANGED vars
    BY <1>5 DEF vars, SaveInv, SavedBy, Signature, Detached, Signs
  <1> QED
    BY <1>1, <1>2, <1>3, <1>4, <1>5 DEF Next

LEMMA AlwaysSaves == Spec => []SaveInv
  <1>1. Init => SaveInv
    <2>1. Init => \A h \in Handle : handle[h].pc = "closed"
      BY ClosedFields DEF Init
    <2> QED
      BY <2>1 DEF SaveInv
  <1> QED
    BY <1>1, NextSaves, AlwaysTyped, PTL DEF Spec

\* Until someone else writes, the cache of a handle that has saved is what the
\* file holds, whatever was merged in, deleted or failed before.
THEOREM CachesAreOnDisk == Spec => []CacheIsOnDisk
  <1>1. SaveInv => CacheIsOnDisk
    BY DEF SaveInv, SavedBy, CacheIsOnDisk
  <1> QED
    BY <1>1, AlwaysSaves, PTL

\* Until someone else writes, what a handle with a key has saved verifies for
\* that handle in the strictest mode, for both envelopes, any keys in rotation,
\* kills and failing writes, if no second handle has a separate signature.
THEOREM SavedFilesVerify ==
    ASSUME OneSeparateSignature
    PROVE  Spec => []SavedFileVerifies
  <1>1. SaveInv => SavedFileVerifies
    <2> SUFFICES ASSUME SaveInv, NEW h \in Handle, handle[h].pc = "open", handle[h].fresh,
                        writer = h, Signs(h)
                 PROVE  VerifyOnLoad([Config[h] EXCEPT !.verify = "strict"],
                                     SignedText(Config[h], disk),
                                     IF Detached(h) THEN sigfile ELSE disk.trailer)
      BY DEF SavedFileVerifies
    <2> DEFINE c == [Config[h] EXCEPT !.verify = "strict"]
               sig == IF Detached(h) THEN sigfile ELSE disk.trailer
    <2>1. Config[h] \in ConfigType /\ Config[h].active \in HmacKey
      BY MemoryStoreAssumption DEF ConfigType, Signs
    <2>a. SavedBy(h)
      BY DEF SaveInv
    <2>2. sig = Sign(Config[h].active, disk.entries)
      BY <2>a DEF SavedBy
    <2>3. SignedText(Config[h], disk) = disk.entries
      BY <2>1, <2>a DEF SavedBy, SignedText, Detached, ConfigType
    <2>4. sig # Absent
      BY <2>1, <2>2, MemoryStoreAssumption DEF Sign
    <2>5. CheckSig(c, disk.entries, sig)
      BY <2>1, <2>2, MemoryStoreAssumption DEF CheckSig, KeysOf, Sign, ConfigType
    <2>6. c.verify = "strict"
      BY <2>1 DEF ConfigType
    <2> QED
      BY <2>3, <2>4, <2>5, <2>6 DEF VerifyOnLoad
  <1> QED
    BY <1>1, AlwaysSaves, PTL
===============================================================================
