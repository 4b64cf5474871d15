-------------------------------- MODULE Quota --------------------------------
(***************************************************************************)
(* Quota accounting (quota.rs, quota/record.rs, check/quotas.rs).          *)
(*                                                                         *)
(* Every operation collects what it changes for each owner, adds up the    *)
(* changes that meet in one dquot, and puts the adjusted dquots in its own *)
(* record.  A dquot that cannot take its change refuses the operation      *)
(* before anything is logged.  Owners of each kind (user, group, project)  *)
(* are ids of their own here: an inode is charged to a set of them.        *)
(***************************************************************************)
EXTENDS Integers, FiniteSets, FiniteSetsExt

CONSTANTS
  Ids,       \* dquots: a kind of owner and its id
  Enforced,  \* those whose kind is enforced and whose id is not zero
  HardBlocks, HardInodes  \* by dquot: its hard limits, 0 for none

ASSUME QuotaAssumption ==
  /\ Enforced \subseteq Ids
  /\ HardBlocks \in [Ids -> Nat] /\ HardInodes \in [Ids -> Nat]

Dquots == [Ids -> [blocks : Nat, inodes : Nat]]

\* QuotaChange
Change(ids, blocks, inodes) == [ids |-> ids, blocks |-> blocks, inodes |-> inodes]

\* The sum of a count over the changes of a list that concern id.
Added(changes, id, count) ==
  LET at == {k \in DOMAIN changes : id \in changes[k].ids}
  IN  SumFunction([k \in at |-> changes[k][count]])

\* accounting_items: changes to one dquot are combined before it is adjusted.
Delta(changes, id) ==
  [blocks |-> Added(changes, id, "blocks"),
   inodes |-> Added(changes, id, "inodes")]

\* The dquots a record has to carry.
Touched(changes) ==
  {id \in Ids : \E k \in DOMAIN changes :
     id \in changes[k].ids /\ (changes[k].blocks # 0 \/ changes[k].inodes # 0)}

\* Mutant: each change against the dquot as it was; the last one stands.
MutAdjustedLast(dquot, changes) ==
  [id \in Ids |->
     LET at == {k \in DOMAIN changes : id \in changes[k].ids}
     IN  IF at = {} THEN dquot[id]
         ELSE LET c == changes[Max(at)]
              IN  [blocks |-> dquot[id].blocks + c.blocks,
                   inodes |-> dquot[id].inodes + c.inodes]]

\* update_dquot of every dquot the record carries.
Adjusted(dquot, changes) ==
  [id \in Ids |->
     IF id \in Touched(changes)
     THEN [blocks |-> dquot[id].blocks + Delta(changes, id).blocks,
           inodes |-> dquot[id].inodes + Delta(changes, id).inodes]
     ELSE dquot[id]]

Over(limit, count) == limit # 0 /\ count > limit

\* adjust_record and usage_after: a count below zero, or above an enforced
\* hard limit, whichever way it moved.
Refuses(id, next) ==
  \/ next.blocks < 0 \/ next.inodes < 0
  \/ id \in Enforced /\ (Over(HardBlocks[id], next.blocks) \/ Over(HardInodes[id], next.inodes))

Accepted(dquot, changes) ==
  \A id \in Touched(changes) : ~Refuses(id, Adjusted(dquot, changes)[id])
=============================================================================
