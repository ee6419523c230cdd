----------------------------- MODULE AtomicFile -----------------------------
(***************************************************************************)
(* What inode_read_at and inode_write_at promise to callers that run       *)
(* concurrently: every read and every write takes effect at one instant.   *)
(* Both may stop short; then they have handled a prefix of the request.    *)
(***************************************************************************)
EXTENDS Naturals

CONSTANTS Threads, Bytes, Length

VARIABLES
  content,  \* the bytes of the file
  result    \* what the last read of each thread returned: a range of bytes

Positions == 0..(Length - 1)
Ranges == {r \in (0..Length) \X (0..Length) : r[1] + r[2] <= Length}
Slice(r) == [i \in r[1]..(r[1] + r[2] - 1) |-> content[i]]
NoBytes == [i \in {} |-> 0]

Init ==
  /\ content \in [Positions -> Bytes]
  /\ result = [t \in Threads |-> NoBytes]

Read(t) ==
  /\ \E r \in Ranges : result' = [result EXCEPT ![t] = Slice(r)]
  /\ UNCHANGED content

Write ==
  /\ \E r \in Ranges, v \in Bytes :
       content' = [i \in Positions |-> IF i \in r[1]..(r[1] + r[2] - 1) THEN v ELSE content[i]]
  /\ UNCHANGED result

Next == Write \/ \E t \in Threads : Read(t)

Spec == Init /\ [][Next]_<<content, result>>
=============================================================================
