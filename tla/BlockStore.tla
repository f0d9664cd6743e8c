----------------------------- MODULE BlockStore -----------------------------
(***************************************************************************)
(* What the buffer cache promises to the file system: the blocks of a disk *)
(* that tasks hold one at a time, read, and write while they hold them.    *)
(***************************************************************************)
CONSTANTS Task, Block, Data, Null

VARIABLES
  content,  \* of each block
  holder    \* of each block: the task that has it

storeVars == <<content, holder>>

StoreInit == content \in [Block -> Data] /\ holder = [b \in Block |-> Null]

Hold(t, b) ==
  /\ holder[b] = Null
  /\ holder' = [holder EXCEPT ![b] = t]
  /\ UNCHANGED content

Change(t, b, d) ==
  /\ holder[b] = t
  /\ content' = [content EXCEPT ![b] = d]
  /\ UNCHANGED holder

LetGo(t, b) ==
  /\ holder[b] = t
  /\ holder' = [holder EXCEPT ![b] = Null]
  /\ UNCHANGED content

StoreNext ==
  \E t \in Task, b \in Block :
    Hold(t, b) \/ LetGo(t, b) \/ \E d \in Data : Change(t, b, d)

StoreSpec == StoreInit /\ [][StoreNext]_storeVars

============================================================================
