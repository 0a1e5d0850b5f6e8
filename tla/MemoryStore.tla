------------------------------ MODULE MemoryStore ------------------------------
(***************************************************************************)
(* The signed memory store (crates/agm-core/src/memory/store): handles,    *)
(* each with its keys, verify mode and envelope, open one `.agm.mem` file, *)
(* change their cache and save it whole.  A signature is either the last   *)
(* line of the file or a file of its own, `.agm.mem.sig`, which is written *)
(* before the body; each of the two writes is an atomic rename, and        *)
(* nothing locks the pair.  `agm run` writes the same file unsigned.       *)
(*                                                                         *)
(* A signature stands for the key and the text it was made from, so a key  *)
(* verifies exactly what it has signed.                                    *)
(*                                                                         *)
(* A definition marked "variant" is not the code's: it is a plausible slip *)
(* in the definition after it, kept to show that a property notices it.    *)
(***************************************************************************)
EXTENDS Naturals

CONSTANTS
    Handle,   \* open stores
    Config,   \* their FilesystemConfig
    Key,      \* memory keys
    Own,      \* the value a handle upserts
    Incoming, \* the value of an entry that is merged in
    Big,      \* a value over MAX_MEMORY_VALUE_BYTES
    Files,    \* what can be merged in: functions of a set of keys
    HmacKey,
    NoKey     \* SigningMode::Disabled

Value == {Own, Incoming}

\* FilesystemConfig: SigningMode is `active` with what it also accepts.
ConfigType == [active : HmacKey \cup {NoKey}, accepted : SUBSET HmacKey,
               verify : {"permissive", "if_present", "strict"},
               envelope : {"trailing_comment", "sidecar_file"},
               named : BOOLEAN]

Absent == [key |-> "none", text |-> {}]       \* no signature
Nobody == "nobody"                            \* another program

ASSUME MemoryStoreAssumption ==
    /\ Config \in [Handle -> ConfigType]
    /\ \A f \in Files : DOMAIN f \subseteq Key /\ \A k \in DOMAIN f : f[k] \in Value \cup {Big}
    /\ {NoKey, Absent.key} \cap HmacKey = {}
    /\ Nobody \notin Handle

VARIABLES
    disk,    \* the file: its entries and the signature on its last line
    sigfile, \* the signature file
    handle,  \* each handle: where it is and its cache
    writer   \* who wrote last to either file

vars == <<disk, sigfile, handle, writer>>

\* Entries are sets of pairs, at most one for each key.
With(entries, k, v) == {e \in entries : e[1] # k} \cup {<<k, v>>}
Without(entries, k) == {e \in entries : e[1] # k}
Keys(entries) == {e[1] : e \in entries}
Pairs(f) == {<<k, f[k]>> : k \in DOMAIN f}

\* sign: newline normalisation is left out, a text is the entries it renders.
Sign(key, entries) == [key |-> key, text |-> entries]

NoFile == [exists |-> FALSE, entries |-> {}, trailer |-> Absent]
Written(entries, trailer) == [exists |-> TRUE, entries |-> entries, trailer |-> trailer]

(***************************************************************************)
(* Verification.                                                           *)
(***************************************************************************)
\* variant: in a rotation only the keys that are still accepted are tried
AcceptedOnly(c) == IF c.accepted = {} THEN {c.active} \ {NoKey} ELSE c.accepted

\* Without a key nothing can be verified.
KeysOf(c) == ({c.active} \cup c.accepted) \ {NoKey}

CheckSig(c, entries, sig) == sig.key \in KeysOf(c) /\ sig.text = entries

VerifyOnLoad(c, entries, sig) ==
    CASE c.verify = "permissive" -> TRUE
      [] c.verify = "if_present" -> sig = Absent \/ CheckSig(c, entries, sig)
      [] c.verify = "strict" -> sig # Absent /\ CheckSig(c, entries, sig)

\* With a separate signature the text is the whole file: a signature on its
\* last line is a part of it that the separate one does not cover.
SignedText(c, raw) ==
    IF c.envelope = "trailing_comment" \/ raw.trailer = Absent THEN raw.entries
    ELSE raw.entries \cup {<<"trailer", raw.trailer.key>>}

(***************************************************************************)
(* Handles.                                                                *)
(***************************************************************************)
Closed == [pc |-> "closed", cache |-> {}, raw |-> NoFile, mem |-> {}, fresh |-> FALSE]

Goto(h, pc) == handle' = [handle EXCEPT ![h].pc = pc]

\* variant: the snapshot is taken before the change
SnapshotFirst(h, entries) ==
    [handle[h] EXCEPT !.pc = "sign", !.cache = entries, !.mem = handle[h].cache]

\* To save is to put what will be written in `mem`.
Saving(h, entries) == [handle[h] EXCEPT !.pc = "sign", !.cache = entries, !.mem = entries]

ReadFile(h) ==
    /\ handle[h].pc = "closed" /\ disk.exists
    /\ handle' = [handle EXCEPT ![h].pc = "verify", ![h].raw = disk]
    /\ UNCHANGED <<disk, sigfile, writer>>

\* The separate signature is read after the body.
Verify(h) ==
    /\ handle[h].pc = "verify"
    /\ LET c == Config[h]
           raw == handle[h].raw
           sig == IF c.envelope = "trailing_comment" THEN raw.trailer ELSE sigfile
       IN  handle' = [handle EXCEPT ![h] =
              IF VerifyOnLoad(c, SignedText(c, raw), sig)
              THEN [Closed EXCEPT !.pc = "open", !.cache = raw.entries]
              ELSE Closed]
    /\ UNCHANGED <<disk, sigfile, writer>>

\* A missing file is created at once when the package is known.
Create(h) ==
    /\ handle[h].pc = "closed" /\ ~disk.exists
    /\ handle' = [handle EXCEPT ![h] =
          IF Config[h].named THEN [Closed EXCEPT !.pc = "sign"] ELSE [Closed EXCEPT !.pc = "open"]]
    /\ UNCHANGED <<disk, sigfile, writer>>

Upsert(h, k) ==
    /\ handle[h].pc = "open"
    /\ handle' = [handle EXCEPT ![h] = Saving(h, With(@.cache, k, Own))]
    /\ UNCHANGED <<disk, sigfile, writer>>

Delete(h, k) ==
    /\ handle[h].pc = "open" /\ k \in Keys(handle[h].cache)
    /\ handle' = [handle EXCEPT ![h] = Saving(h, Without(@.cache, k))]
    /\ UNCHANGED <<disk, sigfile, writer>>

Overwrite(entries, f, keys) == {e \in entries : e[1] \notin keys} \cup {e \in Pairs(f) : e[1] \in keys}

Considered(h, f, strategy) ==
    IF strategy = "union" THEN DOMAIN f \ Keys(handle[h].cache) ELSE DOMAIN f

Conflict(h, f, strategy) ==
    strategy = "reject" /\ DOMAIN f \cap Keys(handle[h].cache) # {}

Merge(h, f, strategy) ==
    /\ handle[h].pc = "open"
    /\ ~Conflict(h, f, strategy)
    /\ LET keys == Considered(h, f, strategy)
       IN  /\ \A k \in keys : f[k] # Big
           /\ handle' = [handle EXCEPT ![h] =
                 Saving(h, Overwrite(@.cache, f, keys))]
    /\ UNCHANGED <<disk, sigfile, writer>>

\* A value that is too large ends the merge; what came before it stays in the
\* cache and is not saved.
MergeStops(h, f, strategy) ==
    /\ handle[h].pc = "open"
    /\ ~Conflict(h, f, strategy)
    /\ \E k \in Considered(h, f, strategy) : f[k] = Big
    /\ \E before \in SUBSET {k \in Considered(h, f, strategy) : f[k] # Big} :
          handle' = [handle EXCEPT ![h].cache = Overwrite(@, f, before), ![h].fresh = FALSE]
    /\ UNCHANGED <<disk, sigfile, writer>>

\* apply_signing: the separate signature is on disk before the body is.

\* variant: the signature of what is on disk
SignDisk(h) == Sign(Config[h].active, disk.entries)

Signature(h) == Sign(Config[h].active, handle[h].mem)
Signs(h) == Config[h].active # NoKey
Detached(h) == Signs(h) /\ Config[h].envelope = "sidecar_file"

ApplySigning(h) ==
    /\ handle[h].pc = "sign"
    /\ IF Detached(h) THEN sigfile' = Signature(h) /\ writer' = h
                      ELSE UNCHANGED <<sigfile, writer>>
    /\ Goto(h, "write")
    /\ UNCHANGED <<disk>>

WriteBody(h) ==
    /\ handle[h].pc = "write"
    /\ disk' = Written(handle[h].mem, IF Signs(h) /\ ~Detached(h) THEN Signature(h) ELSE Absent)
    /\ writer' = h
    /\ handle' = [handle EXCEPT ![h] =
          [Closed EXCEPT !.pc = "open", !.cache = handle[h].cache, !.fresh = TRUE]]
    /\ UNCHANGED sigfile

\* A write that fails leaves the cache ahead of the file.
WriteFails(h) ==
    /\ handle[h].pc \in {"sign", "write"}
    /\ handle' = [handle EXCEPT ![h] =
          [Closed EXCEPT !.pc = "open", !.cache = handle[h].cache]]
    /\ UNCHANGED <<disk, sigfile, writer>>

\* The process ends, or is killed.
Close(h) ==
    /\ handle[h].pc # "closed"
    /\ handle' = [handle EXCEPT ![h] = Closed]
    /\ UNCHANGED <<disk, sigfile, writer>>

\* The memory runtime of `agm run` parses the file, which skips the signature
\* as a comment, and writes it back.
RuntimeFlush(k) ==
    /\ disk' = Written(With(disk.entries, k, Own), Absent) /\ writer' = Nobody
    /\ UNCHANGED <<sigfile, handle>>

Init ==
    /\ disk = NoFile /\ sigfile = Absent /\ writer = Nobody
    /\ handle = [h \in Handle |-> Closed]

Next ==
    \/ \E h \in Handle :
          \/ ReadFile(h) \/ Verify(h) \/ Create(h) \/ Close(h)
          \/ ApplySigning(h) \/ WriteBody(h) \/ WriteFails(h)
          \/ \E k \in Key : Upsert(h, k) \/ Delete(h, k)
          \/ \E f \in Files, s \in {"latest_wins", "union", "reject"} :
                Merge(h, f, s) \/ MergeStops(h, f, s)
    \/ \E k \in Key : RuntimeFlush(k)

Spec == Init /\ [][Next]_vars

-------------------------------------------------------------------------------
Entries == {s \in SUBSET (Key \X Value) : \A e, f \in s : e[1] = f[1] => e = f}

\* Every variable has its type (MemFile, FilesystemMemoryStore).
TypeOK ==
    /\ disk.entries \in Entries /\ writer \in Handle \cup {Nobody}
    /\ \A sig \in {disk.trailer, sigfile} \ {Absent} : sig \in [key : HmacKey, text : Entries]
    /\ \A h \in Handle :
          /\ handle[h].pc \in {"closed", "verify", "open", "sign", "write"}
          /\ {handle[h].cache, handle[h].mem} \subseteq Entries

\* A file never carries another text's signature on its last line, whoever
\* writes it, crashes or fails in between (one rename for body and signature).
TrailerSignsItsBody ==
    disk.trailer # Absent => disk.trailer.text = disk.entries /\ disk.trailer.key \in HmacKey

\* After a save, and until someone else writes, the file on disk verifies for
\* the handle that has saved it, in every mode but one: without a key a
\* signature can only be refused (check_signature_on_disk).  One handle at most
\* may keep its signature in a file of its own: two of them, between whose two
\* renames nothing stands, can leave the body of one under the signature of the
\* other.
SavedFileVerifies ==
    \A h \in Handle :
        handle[h].pc = "open" /\ handle[h].fresh /\ writer = h /\ Signs(h) =>
            VerifyOnLoad([Config[h] EXCEPT !.verify = "strict"], SignedText(Config[h], disk),
                         IF Detached(h) THEN sigfile ELSE disk.trailer)

\* After a save, and until someone else writes, cache and file agree: neither
\* merges, deletions nor a failure before it have split them.
CacheIsOnDisk ==
    \A h \in Handle :
        handle[h].pc = "open" /\ handle[h].fresh /\ writer = h => handle[h].cache = disk.entries
===============================================================================
