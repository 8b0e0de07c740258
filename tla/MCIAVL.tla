------------------------------- MODULE MCIAVL -------------------------------
(***************************************************************************)
(* Instances of IAVL: many keys and one version, enough for a rotation of  *)
(* either kind after an insertion and after a removal; few keys over two   *)
(* versions and a save that is cut short.                                  *)
(***************************************************************************)
EXTENDS IAVL

MCSizes == {[keys |-> 1 .. 6, versions |-> 1, crashes |-> 0],
            [keys |-> 1 .. 3, versions |-> 2, crashes |-> 1]}
=============================================================================
