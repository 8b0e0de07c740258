------------------------------ MODULE Upgrade ------------------------------
(***************************************************************************)
(* Software upgrades (x/upgrade): a plan is scheduled or cancelled by a    *)
(* governance proposal, and the first handler called in every block either *)
(* applies it, skips it, lets the block go on or stops the node, depending *)
(* on the upgrade handlers the running binary has.  Blocks are committed   *)
(* as a whole; a node that stopped, or is stopped at any moment, is        *)
(* started again by its operator, with the same binary or with another     *)
(* one, from what was committed.                                           *)
(*                                                                         *)
(* Left out: the keys of upgraded IBC clients, which are only deleted, and *)
(* the versions of modules, which are never written.  A height below 2^16  *)
(* is assumed where the text of its lower bytes matters: it starts with a  *)
(* zero byte, and no upgrade handler has such a name.                      *)
(***************************************************************************)
EXTENDS Naturals

CONSTANTS Name,          \* names of upgrades
          FourByteNames, \* those of exactly four bytes
          Binaries,      \* the binaries there are: sets of names they handle
          SkipHeights,   \* heights at which the operator skips upgrades
          None,
          LastHeight     \* bound: blocks

ASSUME UpgradeAssumption ==
    /\ Binaries \subseteq SUBSET Name /\ Binaries # {}
    /\ FourByteNames \subseteq Name
    /\ SkipHeights \subseteq Nat
    /\ LastHeight \in Nat

VARIABLES disk,       \* the committed state of the module
          mem,        \* the state in the block cache
          status,     \* "idle" between blocks, "block" in one, or why the node stopped
          binary,     \* the names the running binary has handlers for
          verified    \* DOWNGRADE_VERIFIED, a static of the process

upgradeVars == <<disk, mem, status, binary, verified>>

Stopped == {"corrupt", "needed", "early", "handler"}

Plan == [name : Name, height : Nat \ {0}]

-----------------------------------------------------------------------------
(* The keeper, on a state s and in the block at height h.                  *)

\* Mutated form of ShouldExecute: one block early.
ShouldExecuteEarly(s, h) == s.plan # None /\ s.plan.height <= h + 1

ShouldExecute(s, h) == s.plan # None /\ s.plan.height <= h

\* The bytes b, c after a zero byte are text (UTF-8).
TwoBytesText(b, c) == (b < 128 /\ c < 128) \/ (b \in 194 .. 223 /\ c \in 128 .. 191)
TextHeight(h) == TwoBytesText((h \div 256) % 256, h % 256)

\* last_completed_upgrade takes the key for the height and the value for the
\* name: a record is read only if its name has the four bytes of a height and
\* its height is text, and what it yields is the name of no handler.
LastCompletedPanics(s) ==
    \E n \in Name : s.done[n] # 0 /\ (n \notin FourByteNames \/ ~TextHeight(s.done[n]))

DeletePlan(s) == [s EXCEPT !.plan = None]

ApplyUpgrade(s, h) ==
    [plan |-> None, done |-> [s.done EXCEPT ![s.plan.name] = h],
     protocol |-> s.protocol + 1, height |-> s.height]

\* Mutated form of MaySchedule: for the current block too.
MayScheduleNow(p, h) == p.height >= h

\* done_height looks for the name without the prefix under which set_done
\* stores it and finds nothing: an upgrade that was completed is not refused.
MaySchedule(p, h) == p.height > h

-----------------------------------------------------------------------------
(* The handler of begin_block, for the block after the last committed one. *)

Height == disk.height + 1

Skipped == Height \in SkipHeights

\* The check made once per process, whatever is planned: it never finds the
\* handler of the last completed upgrade, but it reads the record of each.
CheckPanics == ~verified /\ LastCompletedPanics(disk)

Begins(s, p) ==
    /\ status = "idle"
    /\ Height <= LastHeight
    /\ verified' = TRUE
    /\ mem' = [s EXCEPT !.height = Height]
    /\ status' = p
    /\ UNCHANGED <<disk, binary>>

BeginCorrupt == CheckPanics /\ Begins(disk, "corrupt")

BeginSkip ==
    /\ ~CheckPanics
    /\ ShouldExecute(disk, Height) /\ Skipped
    /\ Begins(DeletePlan(disk), "block")

\* The binary has no handler for the plan.
BeginNeeded ==
    /\ ~CheckPanics
    /\ ShouldExecute(disk, Height) /\ ~Skipped
    /\ disk.plan.name \notin binary
    /\ Begins(disk, "needed")

\* The handler of the plan runs and succeeds, or fails.
BeginApply ==
    /\ ~CheckPanics
    /\ ShouldExecute(disk, Height) /\ ~Skipped
    /\ disk.plan.name \in binary
    /\ Begins(ApplyUpgrade(disk, Height), "block") \/ Begins(disk, "handler")

\* The binary has the handler of a plan that is not due.
UpdatedEarly ==
    /\ disk.plan # None /\ ~ShouldExecute(disk, Height)
    /\ disk.plan.name \in binary

BeginEarly ==
    /\ ~CheckPanics
    /\ UpdatedEarly
    /\ Begins(disk, "early")

BeginGoesOn ==
    /\ ~CheckPanics
    /\ ~ShouldExecute(disk, Height)
    /\ ~UpdatedEarly
    /\ Begins(disk, "block")

-----------------------------------------------------------------------------
(* The rest of the block, and the node.                                    *)

\* schedule_upgrade with overwrite, as the proposal handler calls it.
ScheduleUpgrade(p) ==
    /\ status = "block"
    /\ MaySchedule(p, mem.height)
    /\ mem' = [mem EXCEPT !.plan = p]
    /\ UNCHANGED <<disk, status, binary, verified>>

CancelUpgrade ==
    /\ status = "block"
    /\ mem' = DeletePlan(mem)
    /\ UNCHANGED <<disk, status, binary, verified>>

Commit ==
    /\ status = "block"
    /\ disk' = mem
    /\ status' = "idle"
    /\ UNCHANGED <<mem, binary, verified>>

\* The process ended, by a panic or otherwise, and the operator starts b.
Restart(b) ==
    /\ mem' = disk
    /\ status' = "idle"
    /\ binary' = b
    /\ verified' = FALSE
    /\ UNCHANGED disk

UpgradeInit ==
    /\ disk = [plan |-> None, done |-> [n \in Name |-> 0], protocol |-> 0, height |-> 0]
    /\ mem = disk
    /\ status = "idle"
    /\ binary \in Binaries
    /\ verified = FALSE

UpgradeNext ==
    \/ BeginCorrupt \/ BeginSkip \/ BeginNeeded \/ BeginApply \/ BeginEarly
    \/ BeginGoesOn
    \/ \E n \in Name, h \in 1 .. LastHeight + 1 : ScheduleUpgrade([name |-> n, height |-> h])
    \/ CancelUpgrade
    \/ Commit
    \/ \E b \in Binaries : Restart(b)

UpgradeSpec == UpgradeInit /\ [][UpgradeNext]_upgradeVars

-----------------------------------------------------------------------------
(* Properties.                                                             *)

Store == [plan : Plan \cup {None}, done : [Name -> Nat], protocol : Nat, height : Nat]

State(s) ==
    /\ s \in Store
    /\ \A n \in Name : s.done[n] <= s.height

TypeOK ==
    /\ State(disk) /\ State(mem)
    /\ status \in {"idle", "block"} \cup Stopped
    /\ binary \in Binaries /\ verified \in BOOLEAN

(***************************************************************************)
(* A pending upgrade is never passed over: whatever is rescheduled,        *)
(* skipped or restarted with another binary, no block at or after the      *)
(* height of a plan goes on while the plan is still pending.               *)
(***************************************************************************)
PlanNotPassed ==
    /\ disk.plan # None => disk.plan.height > disk.height
    /\ status = "block" /\ mem.plan # None => mem.plan.height > mem.height

(***************************************************************************)
(* An upgrade takes effect in the block its plan names and in no other:    *)
(* when a block that completed an upgrade is committed, the plan for it    *)
(* was committed before, for just this height; and no binary that already  *)
(* contains it commits an earlier block on top of a state where it is      *)
(* still to come ("BINARY UPDATED BEFORE TRIGGER"), whenever the node was  *)
(* stopped and started with another binary.                                *)
(***************************************************************************)
AppliedOnTime ==
    [][/\ \A n \in Name : disk'.done[n] # disk.done[n] =>
             /\ disk.plan = [name |-> n, height |-> disk'.height]
             /\ n \in binary
       /\ disk'.height # disk.height /\ disk.plan # None /\ disk.plan.name \in binary =>
             disk'.height >= disk.plan.height]_upgradeVars
=============================================================================
