--------------------------- MODULE MCStorageReclaim ---------------------------
(* Two operators who both wipe the Go build cache, one of them by force, one who       *)
(* forgets to say so, and an unattended auto-safe pass.                                *)
EXTENDS StorageReclaim

Named(force, wipe) == [provider |-> "go-build-cache", force |-> force, wipe |-> wipe]
MCRequest == [c \in Commands |->
    CASE c = "auto" -> [provider |-> "auto-safe", force |-> FALSE, wipe |-> FALSE]
      [] c = "timid" -> Named(TRUE, FALSE)
      [] c = "forced" -> Named(TRUE, TRUE)
      [] OTHER -> Named(FALSE, TRUE)]
===============================================================================
