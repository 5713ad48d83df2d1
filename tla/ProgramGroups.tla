----------------------------- MODULE ProgramGroups -----------------------------
(***************************************************************************)
(* Program groups (src/vm/program_groups.cc) and the operations of the     *)
(* scheduler on them, each one section of pause_monitor_.  A group is a    *)
(* bit of used_group_mask_ and of the group_mask_ of its programs; its id  *)
(* is the number of the bit plus one.  A client uses the ids Create gave   *)
(* it until it deletes them, as the ASSERTs on IsValidGroup require.       *)
(***************************************************************************)
EXTENDS Integers, FiniteSets

CONSTANTS
    Program,
    Client,             \* parts of the embedder that use groups of their own
    kNumberOfGroups

VARIABLES
    used_group_mask,    \* a number
    group_mask,         \* [Program -> number]
    programs,           \* Scheduler::programs_: the scheduled programs
    owned               \* [Client -> set of ids that Create returned to it]

vars == <<used_group_mask, group_mask, programs, owned>>

Bit == 0..(kNumberOfGroups - 1)
Id == 1..kNumberOfGroups

HasBit(mask, bit) == (mask \div 2 ^ bit) % 2 = 1
WithBit(mask, bit) == IF HasBit(mask, bit) THEN mask ELSE mask + 2 ^ bit
WithoutBit(mask, bit) == IF HasBit(mask, bit) THEN mask - 2 ^ bit ELSE mask

IsValidGroup(id) == id # 0 /\ HasBit(used_group_mask, id - 1)
ContainsProgram(id, p) == HasBit(group_mask[p], id - 1)

Init ==
    /\ used_group_mask = 0
    /\ group_mask = [p \in Program |-> 0]
    /\ programs = {}
    /\ owned = [c \in Client |-> {}]

\* The test of Create: the mask shifted by the bit is not 1.
IsFree(bit) == used_group_mask \div 2 ^ bit # 1

Create(c) ==
    /\ \E bit \in Bit :
          /\ IsFree(bit)
          /\ \A b \in 0..(bit - 1) : ~IsFree(b)
          /\ used_group_mask' = WithBit(used_group_mask, bit)
          /\ owned' = [owned EXCEPT ![c] = @ \cup {bit + 1}]
    /\ UNCHANGED <<group_mask, programs>>

(* DeleteProgramGroup: the group leaves the masks of the scheduled programs. *)
DeleteProgramGroup(c, id) ==
    /\ id \in owned[c]
    /\ used_group_mask' = WithoutBit(used_group_mask, id - 1)
    /\ group_mask' = [p \in Program |-> IF p \in programs THEN WithoutBit(group_mask[p], id - 1)
                                        ELSE group_mask[p]]
    /\ owned' = [owned EXCEPT ![c] = @ \ {id}]
    /\ UNCHANGED programs

AddProgramToGroup(c, id, p) ==
    /\ id \in owned[c]
    /\ group_mask' = [group_mask EXCEPT ![p] = WithBit(@, id - 1)]
    /\ UNCHANGED <<used_group_mask, programs, owned>>

RemoveProgramFromGroup(c, id, p) ==
    /\ id \in owned[c]
    /\ group_mask' = [group_mask EXCEPT ![p] = WithoutBit(@, id - 1)]
    /\ UNCHANGED <<used_group_mask, programs, owned>>

(* ScheduleProgram *)
ScheduleProgram(p) ==
    /\ p \notin programs
    /\ programs' = programs \cup {p}
    /\ UNCHANGED <<used_group_mask, group_mask, owned>>

Next ==
    \/ \E p \in Program : ScheduleProgram(p)
    \/ \E c \in Client :
          \/ Create(c)
          \/ \E id \in Id :
                \/ DeleteProgramGroup(c, id)
                \/ \E p \in Program :
                      AddProgramToGroup(c, id, p) \/ RemoveProgramFromGroup(c, id, p)

Spec == Init /\ [][Next]_vars

-----------------------------------------------------------------------------
\* "Creates a new program group and returns the id" (dartino_api.h): no two
\* clients get the same group.
GroupsAreNew ==
    \A c, d \in Client : c # d => owned[c] \cap owned[d] = {}
=============================================================================
