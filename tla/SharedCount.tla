---------------------------- MODULE SharedCount ----------------------------
(***************************************************************************)
(* The count of a counted_ptr (utility/counted_ptr.h): one session, the     *)
(* pointers of the map of sessions ("map") and of the session itself        *)
(* (smartThis, "self"), and threads that make copies of these and destroy   *)
(* them again: SessionManager::FindSession for a message or for a request   *)
(* to receive, NetworkManager::QueueSend for one to send.                   *)
(*                                                                         *)
(* Neither ++count nor --count is atomic: each reads and writes at          *)
(* different moments.  What is done with a counter after it was deleted is  *)
(* not modelled: the property is about the moment of the deletion.  Neither *)
(* is a copy of a pointer that is destroyed while it is copied (the map has *)
(* no lock either), so that what is found is the fault of the count alone.  *)
(***************************************************************************)
EXTENDS Integers

CONSTANTS Threads,      \* the threads that use the session, other than the main one
          UIntSize,     \* the number of values of count, 2^32
          MaxCopies     \* bound: how many copies are made

Main == "main"
Actors == Threads \cup {Main}

VARIABLES
    count,      \* counter::count
    points,     \* the pointers whose itsCounter is this counter
    doing,      \* what each actor does with which pointer
    read,       \* what each has read of count
    freed,      \* the session and its counter are deleted
    copies      \* how many copies have been made

vars == <<count, points, doing, read, freed, copies>>

Doing(at, with, from) == [at |-> at, with |-> with, from |-> from]
Idle == Doing("idle", "none", "none")

(* SessionManager::AddSession_ has put the session into the map; the        *)
(* pointers it was passed in are gone.                                      *)
Init == /\ count = 2 /\ points = {"map", "self"}
        /\ doing = [a \in Actors |-> Idle] /\ read = [a \in Actors |-> 0]
        /\ freed = FALSE /\ copies = 0

(* counted_ptr(const counted_ptr&): acquire() sets the pointer and reads    *)
(* the count ...                                                            *)
Copy(t, from) ==
    /\ doing[t] = Idle /\ ~freed
    /\ from \in points /\ doing[Main].with # from /\ copies < MaxCopies
    /\ points' = points \cup {t}
    /\ read' = [read EXCEPT ![t] = count]
    /\ doing' = [doing EXCEPT ![t] = Doing("acquire", t, from)]
    /\ copies' = copies + 1
    /\ UNCHANGED <<count, freed>>

(* ... and writes it.                                                       *)
Acquired(t) ==
    /\ doing[t].at = "acquire" /\ ~freed
    /\ count' = (read[t] + 1) % UIntSize
    /\ doing' = [doing EXCEPT ![t] = Doing("holds", t, "none")]
    /\ UNCHANGED <<points, read, freed, copies>>

(* release(): the count is read ...                                         *)
Release(a, pointer) ==
    /\ pointer \in points /\ ~freed
    /\ \A t \in Threads : doing[t].from # pointer
    /\ read' = [read EXCEPT ![a] = count]
    /\ doing' = [doing EXCEPT ![a] = Doing("release", pointer, "none")]
    /\ UNCHANGED <<count, points, freed, copies>>

(* ... written, and the session deleted when it has come to 0.              *)
Released(a) ==
    /\ doing[a].at = "release" /\ ~freed
    /\ count' = (read[a] - 1) % UIntSize
    /\ freed' = (count' = 0)
    /\ points' = points \ {doing[a].with}
    /\ doing' = [doing EXCEPT ![a] = Idle]
    /\ UNCHANGED <<read, copies>>

(* A thread has done with its copy: ~counted_ptr().                         *)
Drop(t) == doing[t].at = "holds" /\ Release(t, t)

(* The main thread removes the session: deleteSmartPointer() assigns NULL   *)
(* to smartThis (operator=, which releases it), then the map erases its own. *)
DeleteSmartPointer == doing[Main] = Idle /\ Release(Main, "self")
EraseFromMap == doing[Main] = Idle /\ "self" \notin points /\ Release(Main, "map")

Next == \/ \E t \in Threads : \/ \E from \in {"map", "self"} : Copy(t, from)
                              \/ Acquired(t) \/ Drop(t)
        \/ DeleteSmartPointer \/ EraseFromMap
        \/ \E a \in Actors : Released(a)

Spec == Init /\ [][Next]_vars

-----------------------------------------------------------------------------
(* A session is deleted only when no pointer refers to it any more, however *)
(* many threads copy and destroy them: the count "should be thread safe.    *)
(* KEEP IT THAT WAY" (counted_ptr.h:28).                                    *)
FreedUnused == freed => points = {}
=============================================================================
