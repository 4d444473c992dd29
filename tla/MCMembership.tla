---------------------------- MODULE MCMembership ----------------------------
EXTENDS Membership

\* Ann and ann are two users of the database and one row of a list.
CaseFold(u) == IF u = "ann" THEN "Ann" ELSE u

\* No definition tells two sessions, two channel objects or two workers apart.
Symmetry == Permutations(Sessions) \cup Permutations(Objects) \cup Permutations(Workers)

\* The packets that have not left, of two sessions together.
MaxPackets == 2

\* Nothing but UniqueNames and ChannelAgrees is claimed of what comes after the
\* main thread has passed the barrier too early, or packets have been swapped, and
\* MembershipProofs shows both for it: these states are checked but not gone on from.
Bounded == /\ past \cap {"early", "swapped"} = {}
           /\ past = {} => \A s, q \in Sessions :
                            s # q => Len(packets[s]) + Len(packets[q]) <= MaxPackets

\* The lists matter to ListsAgree alone, which claims nothing any more once past
\* is not empty: from then on states that differ only in them count as one.
Seen == <<who, channel, rooms, job, tick, past,
          IF past = {} THEN <<packets, view>> ELSE <<>> >>
=============================================================================
