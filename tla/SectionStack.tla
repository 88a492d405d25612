---------------------------- MODULE SectionStack ----------------------------
(***************************************************************************)
(* What an SBE-XIP image is to its users (sbe_xip_image.h): a stack of     *)
(* sections with contents.  Data can be appended to the section on top and *)
(* to a section that is not there, which is then on top; only the section  *)
(* on top can be deleted.                                                  *)
(***************************************************************************)
EXTENDS Sequences

CONSTANTS
    Sections,
    Data,     \* what a section holds
    Appends   \* the data that is appended: non-empty sequences

VARIABLES
    contents,  \* section -> the data in it
    below      \* the pairs <<s, t>> of sections that are there, s below t

Present == {s \in Sections : contents[s] # << >>}
IsTop(s) == s \in Present /\ \A t \in Present \ {s} : <<t, s>> \in below

StackInit ==
    /\ contents \in [Sections -> Seq(Data)]
    /\ \A s, t \in Present : s # t => (<<s, t>> \in below <=> <<t, s>> \notin below)

Push(s, data) ==
    /\ s \notin Present
    /\ contents' = [contents EXCEPT ![s] = data]
    /\ below' = below \cup {<<t, s>> : t \in Present}

Extend(s, data) ==
    /\ IsTop(s)
    /\ contents' = [contents EXCEPT ![s] = @ \o data]
    /\ UNCHANGED below

Pop(s) ==
    /\ IsTop(s)
    /\ contents' = [contents EXCEPT ![s] = << >>]
    /\ below' = {p \in below : p[2] # s}

StackNext == \E s \in Sections : Pop(s) \/ \E data \in Appends : Push(s, data) \/ Extend(s, data)
StackSpec == StackInit /\ [][StackNext]_<<contents, below>>
=============================================================================
