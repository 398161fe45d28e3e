--------------------------- MODULE IndexedStream ---------------------------
(***************************************************************************)
(* What the indexed ring promises, without counters, chunks and iterators: *)
(* a window on a stream of samples numbered by their index.  The writer    *)
(* extends the window at its end, the reader asks for an index and is      *)
(* given the window's content from there on, and the window is shortened   *)
(* by what has been passed.  A sample is its own index.                    *)
(***************************************************************************)
EXTENDS Integers, Sequences

CONSTANTS
  Capacity,   \* the longest window
  Pad         \* what stands for a sample there is not

VARIABLES
  slots,      \* the window's content
  released,   \* its first index
  published,  \* the index after its last
  asked,      \* the index the reader has asked for
  given       \* what it has been given

stream == <<slots, released, published, asked, given>>

Init ==
  /\ slots = [p \in 0 .. -1 |-> Pad] /\ released = 0 /\ published = 0
  /\ asked = 0 /\ given = <<>>

\* The writer's samples begin at index from; what is missing before them is padded.
Write ==
  /\ published' \in Nat /\ published <= published' /\ published' - released <= Capacity
  /\ \E from \in published .. published' :
       slots' = [p \in released .. published' - 1 |->
                   IF p < published THEN slots[p] ELSE IF p < from THEN Pad ELSE p]
  /\ UNCHANGED <<released, asked, given>>

Ask ==
  /\ asked' \in Nat
  /\ given' = <<>>
  /\ UNCHANGED <<slots, released, published>>

\* The content from the index asked for, padded where it has been released already.
Give ==
  /\ given' = [j \in 1 .. Len(given') |->
                 IF asked + j - 1 < released THEN Pad ELSE slots[asked + j - 1]]
  /\ given' = <<>> \/ asked + Len(given') <= published
  /\ UNCHANGED <<slots, released, published, asked>>

\* Exactly what was given is released, and what is before it.  A reader that was
\* given nothing may have passed over what is before the index it asked for.
Release ==
  /\ released' \in released .. published
  /\ LET end == asked + Len(given)
     IN IF given = <<>> THEN released' > released => released' <= asked
                        ELSE released' = IF end > released THEN end ELSE released
  /\ slots' = [p \in released' .. published - 1 |-> slots[p]]
  /\ UNCHANGED <<published, asked, given>>

Next == Write \/ Ask \/ Give \/ Release

Spec == Init /\ [][Next]_stream
=============================================================================
