------------------------------- MODULE MCTape -------------------------------
EXTENDS Tape

\* A medium that was filled with zeros (filemarks everywhere)
Zeros == [i \in 1 .. 14 |-> 0]
\* block, erase gap, unreadable block, filemark, private marker of another
\* program, end of medium, rest of an old record
Foreign == <<2, 0, 1, 1, 2, 0,  14, 15,  0, 8,  0, 0,  3, 7,  15, 15>>
\* block with a trailing length that differs, filemark, block of two blocks with
\* a recovered error
Damaged == <<2, 0, 1, 1, 1, 0,  0, 0,  4, 8, 1, 2, 3, 4, 4, 8>>

MCMedia == {[image |-> Zeros, append |-> 0], [image |-> Foreign, append |-> 0],
            [image |-> Damaged, append |-> 0], [image |-> <<>>, append |-> 14],
            [image |-> <<>>, append |-> 5]}

\* No action reads the command that was last asked for
View == <<medium, tape_position, object_location, xfer, result, buffer, condition, marked, listed>>

\* Once the host has been told of trouble only the ways back (and the ways from
\* a lost position to a torn medium) are followed
WaysBack == condition # "known" => condition' # condition
=============================================================================
