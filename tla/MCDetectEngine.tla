----------------------------- MODULE MCDetectEngine -----------------------------
(* Small instances of the detector for TLC.                                 *)
EXTENDS DetectEngine, TLC

CONSTANTS s1, s2, s3, hello, bye, grep

Kind(content, tool, failed, cost) ==
  [content |-> content, tool |-> tool, failed |-> failed, cost |-> cost]

(* A looping request, and the failing tool call of a costly one.            *)
MCKinds == {Kind(hello, NoTool, FALSE, 0), Kind(bye, grep, TRUE, 1)}
Symmetric == Permutations(Sessions)
================================================================================
