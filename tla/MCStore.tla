-------------------------------- MODULE MCStore --------------------------------
(***************************************************************************)
(* Small instances of MemoryStore for TLC: two handles with different      *)
(* keys and envelopes on one file.                                         *)
(***************************************************************************)
EXTENDS MemoryStore, TLC

Conf(active, accepted, verify, envelope, named) ==
    [active |-> active, accepted |-> accepted, verify |-> verify,
     envelope |-> envelope, named |-> named]

TwoConfigs ==
    "strict" :> Conf("k2", {"k1"}, "strict", "trailing_comment", FALSE)
      @@ "detached" :> Conf("k1", {}, "if_present", "sidecar_file", TRUE)
      @@ "old" :> Conf("k1", {}, "permissive", "trailing_comment", FALSE)
      @@ "plain" :> Conf("no key", {}, "if_present", "trailing_comment", TRUE)
      @@ "strict_detached" :> Conf("k1", {}, "strict", "sidecar_file", FALSE)

ConfigOf == [h \in Handle |-> TwoConfigs[h]]

SomeFiles ==
    {"a" :> "theirs" @@ "b" :> "theirs", "a" :> "theirs" @@ "b" :> "big"}
===============================================================================
