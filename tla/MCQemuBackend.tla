--------------------------- MODULE MCQemuBackend ---------------------------
(* Instances of QemuBackend for the model checker. *)
EXTENDS QemuBackend

CONSTANTS p1, p2, elf, pe, doc

\* A Linux and a Windows executable, and a file no guest runs.
KindOf == [b \in Bytes |-> CASE b = elf -> "linux" [] b = pe -> "windows" [] OTHER -> "other"]
=============================================================================
