------------------------ MODULE PtouchTransfer_proofs ------------------------
(***************************************************************************)
(* Ownership of transfers and semaphores, for every number of them and      *)
(* every length of a call: OwnershipInv is inductive, and the safety        *)
(* properties of PtouchTransfer follow from it.                             *)
(***************************************************************************)
EXTENDS PtouchTransfer, FiniteSetTheorems, TLAPS

\* A call with one transfer has a count.
LEMMA OneIsLeft == 1 \in 1..MaxChunks
BY ChunksAssumption

\* The driver starts with nothing allocated and nothing on its way.
LEMMA OwnershipInit == Init => OwnershipInv
<1>1. Init => TypeOK
  <2>1. Init => CallTypeOK BY OneIsLeft DEF Init, CallTypeOK
  <2>2. Init => MemoryTypeOK BY DEF Init, MemoryTypeOK, Statuses
  <2>3. Init => HostTypeOK BY DEF Init, HostTypeOK
  <2>4. Init => GateTypeOK BY DEF Init, GateTypeOK
  <2>5. QED BY <2>1, <2>2, <2>3, <2>4 DEF TypeOK
<1>2. Init => MemoryAccounted /\ FaultRetainsOne /\ OneOwner
  BY DEF Init, MemoryAccounted, FaultRetainsOne, OneOwner, Waiting
<1>3. QED BY <1>1, <1>2 DEF OwnershipInv

\* A status call begins with fresh memory, and only without a fault.
LEMMA BeginStatusKeeps ==
  ASSUME OwnershipInv, \E t \in Xfers, s \in Sems : BeginStatus(t, s)
  PROVE  OwnershipInv'
<1> USE NullAssumption, ChunksAssumption DEF OwnershipInv, BeginStatus, Allocate, Waiting,
        callLocals, memory, hostLib, device, gates
<1>1. TypeOK'
  <2>1. CallTypeOK' BY OneIsLeft DEF TypeOK, CallTypeOK, Statuses
  <2>2. MemoryTypeOK' BY DEF TypeOK, CallTypeOK, MemoryTypeOK, MemoryAccounted, OneOwner, Statuses
  <2>3. HostTypeOK' BY DEF TypeOK, CallTypeOK, HostTypeOK, MemoryAccounted, Endpoints, Ep, Returns
  <2>4. GateTypeOK' BY DEF TypeOK, GateTypeOK
  <2>5. QED BY <2>1, <2>2, <2>3, <2>4 DEF TypeOK
<1>2. MemoryAccounted' BY DEF TypeOK, CallTypeOK, MemoryTypeOK, MemoryAccounted, FaultRetainsOne, OneOwner
<1>3. FaultRetainsOne' BY DEF TypeOK, CallTypeOK, MemoryTypeOK, MemoryAccounted, FaultRetainsOne, OneOwner
<1>4. OneOwner' BY DEF TypeOK, CallTypeOK, MemoryTypeOK, HostTypeOK, MemoryAccounted,
                     FaultRetainsOne, OneOwner
<1>5. QED BY <1>1, <1>2, <1>3, <1>4

\* So does an output ...
LEMMA BeginOutputKeeps ==
  ASSUME OwnershipInv, \E t \in Xfers, s \in Sems, n \in 1..MaxChunks : BeginOutput(t, s, n)
  PROVE  OwnershipInv'
<1> USE NullAssumption, ChunksAssumption DEF OwnershipInv, BeginOutput, Allocate, Waiting,
        callLocals, memory, hostLib, device, gates
<1>1. TypeOK'
  <2>1. CallTypeOK' BY DEF TypeOK, CallTypeOK, Statuses
  <2>2. MemoryTypeOK' BY DEF TypeOK, CallTypeOK, MemoryTypeOK, MemoryAccounted, OneOwner, Statuses
  <2>3. HostTypeOK' BY DEF TypeOK, CallTypeOK, HostTypeOK, MemoryAccounted, Endpoints, Ep, Returns
  <2>4. GateTypeOK' BY DEF TypeOK, GateTypeOK
  <2>5. QED BY <2>1, <2>2, <2>3, <2>4 DEF TypeOK
<1>2. MemoryAccounted' BY DEF TypeOK, CallTypeOK, MemoryTypeOK, MemoryAccounted, FaultRetainsOne, OneOwner
<1>3. FaultRetainsOne' BY DEF TypeOK, CallTypeOK, MemoryTypeOK, MemoryAccounted, FaultRetainsOne, OneOwner
<1>4. OneOwner' BY DEF TypeOK, CallTypeOK, MemoryTypeOK, HostTypeOK, MemoryAccounted,
                     FaultRetainsOne, OneOwner
<1>5. QED BY <1>1, <1>2, <1>3, <1>4

\* ... and its completion wait.
LEMMA BeginAwaitKeeps ==
  ASSUME OwnershipInv, \E t \in Xfers, s \in Sems, n \in 1..MaxChunks : BeginAwait(t, s, n)
  PROVE  OwnershipInv'
<1> USE NullAssumption, ChunksAssumption DEF OwnershipInv, BeginAwait, Allocate, Waiting,
        callLocals, memory, hostLib, device, gates
<1>1. TypeOK'
  <2>1. CallTypeOK' BY DEF TypeOK, CallTypeOK, Statuses
  <2>2. MemoryTypeOK' BY DEF TypeOK, CallTypeOK, MemoryTypeOK, MemoryAccounted, OneOwner, Statuses
  <2>3. HostTypeOK' BY DEF TypeOK, CallTypeOK, HostTypeOK, MemoryAccounted, Endpoints, Ep, Returns
  <2>4. GateTypeOK' BY DEF TypeOK, GateTypeOK
  <2>5. QED BY <2>1, <2>2, <2>3, <2>4 DEF TypeOK
<1>2. MemoryAccounted' BY DEF TypeOK, CallTypeOK, MemoryTypeOK, MemoryAccounted, FaultRetainsOne, OneOwner
<1>3. FaultRetainsOne' BY DEF TypeOK, CallTypeOK, MemoryTypeOK, MemoryAccounted, FaultRetainsOne, OneOwner
<1>4. OneOwner' BY DEF TypeOK, CallTypeOK, MemoryTypeOK, HostTypeOK, MemoryAccounted,
                     FaultRetainsOne, OneOwner
<1>5. QED BY <1>1, <1>2, <1>3, <1>4

\* Without the wait the call is over.
LEMMA NoAwaitKeeps ==
  ASSUME OwnershipInv, NoAwait
  PROVE  OwnershipInv'
<1> USE NullAssumption, ChunksAssumption DEF OwnershipInv, NoAwait, Waiting,
        callLocals, memory, hostLib, device, gates
<1>1. TypeOK'
  <2>1. CallTypeOK' BY DEF TypeOK, CallTypeOK, Statuses
  <2>2. MemoryTypeOK' BY DEF TypeOK, CallTypeOK, MemoryTypeOK, MemoryAccounted, OneOwner, Statuses
  <2>3. HostTypeOK' BY DEF TypeOK, CallTypeOK, HostTypeOK, MemoryAccounted, Endpoints, Ep, Returns
  <2>4. GateTypeOK' BY DEF TypeOK, GateTypeOK
  <2>5. QED BY <2>1, <2>2, <2>3, <2>4 DEF TypeOK
<1>2. MemoryAccounted' BY DEF TypeOK, CallTypeOK, MemoryTypeOK, MemoryAccounted, FaultRetainsOne, OneOwner
<1>3. FaultRetainsOne' BY DEF TypeOK, CallTypeOK, MemoryTypeOK, MemoryAccounted, FaultRetainsOne, OneOwner
<1>4. OneOwner' BY DEF TypeOK, CallTypeOK, MemoryTypeOK, HostTypeOK, MemoryAccounted,
                     FaultRetainsOne, OneOwner
<1>5. QED BY <1>1, <1>2, <1>3, <1>4

\* The library takes the transfer, whose callback will give the call's semaphore.
LEMMA SubmitAcceptedKeeps ==
  ASSUME OwnershipInv, SubmitAccepted
  PROVE  OwnershipInv'
<1> USE NullAssumption, ChunksAssumption DEF OwnershipInv, SubmitAccepted, Waiting,
        callLocals, memory, hostLib, device, gates
<1>1. TypeOK'
  <2>1. CallTypeOK' BY DEF TypeOK, CallTypeOK, Statuses
  <2>2. MemoryTypeOK' BY DEF TypeOK, CallTypeOK, MemoryTypeOK, MemoryAccounted, OneOwner, Statuses
  <2>3. HostTypeOK' BY DEF TypeOK, CallTypeOK, HostTypeOK, MemoryAccounted, Endpoints, Ep, Returns
  <2>4. GateTypeOK' BY DEF TypeOK, GateTypeOK
  <2>5. QED BY <2>1, <2>2, <2>3, <2>4 DEF TypeOK
<1>2. MemoryAccounted' BY DEF TypeOK, CallTypeOK, MemoryTypeOK, MemoryAccounted, FaultRetainsOne, OneOwner
<1>3. FaultRetainsOne' BY DEF TypeOK, CallTypeOK, MemoryTypeOK, MemoryAccounted, FaultRetainsOne, OneOwner
<1>4. OneOwner' BY DEF TypeOK, CallTypeOK, MemoryTypeOK, HostTypeOK, MemoryAccounted,
                     FaultRetainsOne, OneOwner
<1>5. QED BY <1>1, <1>2, <1>3, <1>4

\* Or it does not.
LEMMA SubmitRejectedKeeps ==
  ASSUME OwnershipInv, SubmitRejected
  PROVE  OwnershipInv'
<1> USE NullAssumption, ChunksAssumption DEF OwnershipInv, SubmitRejected, Waiting,
        callLocals, memory, hostLib, device, gates
<1>1. TypeOK'
  <2>1. CallTypeOK' BY DEF TypeOK, CallTypeOK, Statuses
  <2>2. MemoryTypeOK' BY DEF TypeOK, CallTypeOK, MemoryTypeOK, MemoryAccounted, OneOwner, Statuses
  <2>3. HostTypeOK' BY DEF TypeOK, CallTypeOK, HostTypeOK, MemoryAccounted, Endpoints, Ep, Returns
  <2>4. GateTypeOK' BY DEF TypeOK, GateTypeOK
  <2>5. QED BY <2>1, <2>2, <2>3, <2>4 DEF TypeOK
<1>2. MemoryAccounted' BY DEF TypeOK, CallTypeOK, MemoryTypeOK, MemoryAccounted, FaultRetainsOne, OneOwner
<1>3. FaultRetainsOne' BY DEF TypeOK, CallTypeOK, MemoryTypeOK, MemoryAccounted, FaultRetainsOne, OneOwner
<1>4. OneOwner' BY DEF TypeOK, CallTypeOK, MemoryTypeOK, HostTypeOK, MemoryAccounted,
                     FaultRetainsOne, OneOwner
<1>5. QED BY <1>1, <1>2, <1>3, <1>4

\* The call takes the token its own transfer has left.
LEMMA WokenKeeps ==
  ASSUME OwnershipInv, Woken
  PROVE  OwnershipInv'
<1> USE NullAssumption, ChunksAssumption DEF OwnershipInv, Woken, Waiting,
        callLocals, memory, hostLib, device, gates
<1>1. TypeOK'
  <2>1. CallTypeOK' BY DEF TypeOK, CallTypeOK, Statuses
  <2>2. MemoryTypeOK' BY DEF TypeOK, CallTypeOK, MemoryTypeOK, MemoryAccounted, OneOwner, Statuses
  <2>3. HostTypeOK' BY DEF TypeOK, CallTypeOK, HostTypeOK, MemoryAccounted, Endpoints, Ep, Returns
  <2>4. GateTypeOK' BY DEF TypeOK, GateTypeOK
  <2>5. QED BY <2>1, <2>2, <2>3, <2>4 DEF TypeOK
<1>2. MemoryAccounted' BY DEF TypeOK, CallTypeOK, MemoryTypeOK, MemoryAccounted, FaultRetainsOne, OneOwner
<1>3. FaultRetainsOne' BY DEF TypeOK, CallTypeOK, MemoryTypeOK, MemoryAccounted, FaultRetainsOne, OneOwner
<1>4. OneOwner' BY DEF TypeOK, CallTypeOK, MemoryTypeOK, HostTypeOK, MemoryAccounted,
                     FaultRetainsOne, OneOwner
<1>5. QED BY <1>1, <1>2, <1>3, <1>4

\* A timeout changes nothing yet.
LEMMA WaitExpiresKeeps ==
  ASSUME OwnershipInv, WaitExpires
  PROVE  OwnershipInv'
<1> USE NullAssumption, ChunksAssumption DEF OwnershipInv, WaitExpires, Waiting,
        callLocals, memory, hostLib, device, gates
<1>1. TypeOK'
  <2>1. CallTypeOK' BY DEF TypeOK, CallTypeOK, Statuses
  <2>2. MemoryTypeOK' BY DEF TypeOK, CallTypeOK, MemoryTypeOK, MemoryAccounted, OneOwner, Statuses
  <2>3. HostTypeOK' BY DEF TypeOK, CallTypeOK, HostTypeOK, MemoryAccounted, Endpoints, Ep, Returns
  <2>4. GateTypeOK' BY DEF TypeOK, GateTypeOK
  <2>5. QED BY <2>1, <2>2, <2>3, <2>4 DEF TypeOK
<1>2. MemoryAccounted' BY DEF TypeOK, CallTypeOK, MemoryTypeOK, MemoryAccounted, FaultRetainsOne, OneOwner
<1>3. FaultRetainsOne' BY DEF TypeOK, CallTypeOK, MemoryTypeOK, MemoryAccounted, FaultRetainsOne, OneOwner
<1>4. OneOwner' BY DEF TypeOK, CallTypeOK, MemoryTypeOK, HostTypeOK, MemoryAccounted,
                     FaultRetainsOne, OneOwner
<1>5. QED BY <1>1, <1>2, <1>3, <1>4

\* Halting leaves the transfer where it is.
LEMMA HaltKeeps ==
  ASSUME OwnershipInv, Halt
  PROVE  OwnershipInv'
<1> USE NullAssumption, ChunksAssumption DEF OwnershipInv, Halt, HaltReturns, Waiting,
        callLocals, memory, hostLib, device, gates
<1>1. TypeOK'
  <2>1. CallTypeOK' BY DEF TypeOK, CallTypeOK, Statuses
  <2>2. MemoryTypeOK' BY DEF TypeOK, CallTypeOK, MemoryTypeOK, MemoryAccounted, OneOwner, Statuses
  <2>3. HostTypeOK' BY DEF TypeOK, CallTypeOK, HostTypeOK, MemoryAccounted, Endpoints, Ep, Returns
  <2>4. GateTypeOK' BY DEF TypeOK, GateTypeOK
  <2>5. QED BY <2>1, <2>2, <2>3, <2>4 DEF TypeOK
<1>2. MemoryAccounted' BY DEF TypeOK, CallTypeOK, MemoryTypeOK, MemoryAccounted, FaultRetainsOne, OneOwner
<1>3. FaultRetainsOne' BY DEF TypeOK, CallTypeOK, MemoryTypeOK, MemoryAccounted, FaultRetainsOne, OneOwner
<1>4. OneOwner' BY DEF TypeOK, CallTypeOK, MemoryTypeOK, HostTypeOK, MemoryAccounted,
                     FaultRetainsOne, OneOwner
<1>5. QED BY <1>1, <1>2, <1>3, <1>4

\* Flushing moves it to the queue of callbacks.
LEMMA FlushKeeps ==
  ASSUME OwnershipInv, Flush
  PROVE  OwnershipInv'
<1> USE NullAssumption, ChunksAssumption DEF OwnershipInv, Flush, FlushReturns, Waiting,
        callLocals, memory, hostLib, device, gates
<1>1. TypeOK'
  <2>1. CallTypeOK' BY DEF TypeOK, CallTypeOK, Statuses
  <2>2. MemoryTypeOK' BY DEF TypeOK, CallTypeOK, MemoryTypeOK, MemoryAccounted, OneOwner, Statuses
  <2>3. HostTypeOK' BY DEF TypeOK, CallTypeOK, HostTypeOK, MemoryAccounted, Endpoints, Ep, Returns
  <2>4. GateTypeOK' BY DEF TypeOK, GateTypeOK
  <2>5. QED BY <2>1, <2>2, <2>3, <2>4 DEF TypeOK
<1>2. MemoryAccounted' BY DEF TypeOK, CallTypeOK, MemoryTypeOK, MemoryAccounted, FaultRetainsOne, OneOwner
<1>3. FaultRetainsOne' BY DEF TypeOK, CallTypeOK, MemoryTypeOK, MemoryAccounted, FaultRetainsOne, OneOwner
<1>4. OneOwner' BY DEF TypeOK, CallTypeOK, MemoryTypeOK, HostTypeOK, MemoryAccounted,
                     FaultRetainsOne, OneOwner
<1>5. QED BY <1>1, <1>2, <1>3, <1>4

\* Its callback ends the second wait.
LEMMA GraceTakenKeeps ==
  ASSUME OwnershipInv, GraceTaken
  PROVE  OwnershipInv'
<1> USE NullAssumption, ChunksAssumption DEF OwnershipInv, GraceTaken, Waiting,
        callLocals, memory, hostLib, device, gates
<1>1. TypeOK'
  <2>1. CallTypeOK' BY DEF TypeOK, CallTypeOK, Statuses
  <2>2. MemoryTypeOK' BY DEF TypeOK, CallTypeOK, MemoryTypeOK, MemoryAccounted, OneOwner, Statuses
  <2>3. HostTypeOK' BY DEF TypeOK, CallTypeOK, HostTypeOK, MemoryAccounted, Endpoints, Ep, Returns
  <2>4. GateTypeOK' BY DEF TypeOK, GateTypeOK
  <2>5. QED BY <2>1, <2>2, <2>3, <2>4 DEF TypeOK
<1>2. MemoryAccounted' BY DEF TypeOK, CallTypeOK, MemoryTypeOK, MemoryAccounted, FaultRetainsOne, OneOwner
<1>3. FaultRetainsOne' BY DEF TypeOK, CallTypeOK, MemoryTypeOK, MemoryAccounted, FaultRetainsOne, OneOwner
<1>4. OneOwner' BY DEF TypeOK, CallTypeOK, MemoryTypeOK, HostTypeOK, MemoryAccounted,
                     FaultRetainsOne, OneOwner
<1>5. QED BY <1>1, <1>2, <1>3, <1>4

\* Or it is retained, and nothing else ever.
LEMMA GraceExpiresKeeps ==
  ASSUME OwnershipInv, GraceExpires
  PROVE  OwnershipInv'
<1> USE NullAssumption, ChunksAssumption DEF OwnershipInv, GraceExpires, Waiting,
        callLocals, memory, hostLib, device, gates
<1>1. TypeOK'
  <2>1. CallTypeOK' BY DEF TypeOK, CallTypeOK, Statuses
  <2>2. MemoryTypeOK' BY DEF TypeOK, CallTypeOK, MemoryTypeOK, MemoryAccounted, OneOwner, Statuses
  <2>3. HostTypeOK' BY DEF TypeOK, CallTypeOK, HostTypeOK, MemoryAccounted, Endpoints, Ep, Returns
  <2>4. GateTypeOK' BY DEF TypeOK, GateTypeOK
  <2>5. QED BY <2>1, <2>2, <2>3, <2>4 DEF TypeOK
<1>2. MemoryAccounted' BY DEF TypeOK, CallTypeOK, MemoryTypeOK, MemoryAccounted, FaultRetainsOne, OneOwner
<1>3. FaultRetainsOne' BY DEF TypeOK, CallTypeOK, MemoryTypeOK, MemoryAccounted, FaultRetainsOne, OneOwner
<1>4. OneOwner' BY DEF TypeOK, CallTypeOK, MemoryTypeOK, HostTypeOK, MemoryAccounted,
                     FaultRetainsOne, OneOwner
<1>5. QED BY <1>1, <1>2, <1>3, <1>4

\* The endpoint is no memory.
LEMMA ClearReturnsKeeps ==
  ASSUME OwnershipInv, ClearReturns
  PROVE  OwnershipInv'
<1> USE NullAssumption, ChunksAssumption DEF OwnershipInv, ClearReturns, Waiting,
        callLocals, memory, hostLib, device, gates
<1>1. TypeOK'
  <2>1. CallTypeOK' BY DEF TypeOK, CallTypeOK, Statuses
  <2>2. MemoryTypeOK' BY DEF TypeOK, CallTypeOK, MemoryTypeOK, MemoryAccounted, OneOwner, Statuses
  <2>3. HostTypeOK' BY DEF TypeOK, CallTypeOK, HostTypeOK, MemoryAccounted, Endpoints, Ep, Returns
  <2>4. GateTypeOK' BY DEF TypeOK, GateTypeOK
  <2>5. QED BY <2>1, <2>2, <2>3, <2>4 DEF TypeOK
<1>2. MemoryAccounted' BY DEF TypeOK, CallTypeOK, MemoryTypeOK, MemoryAccounted, FaultRetainsOne, OneOwner
<1>3. FaultRetainsOne' BY DEF TypeOK, CallTypeOK, MemoryTypeOK, MemoryAccounted, FaultRetainsOne, OneOwner
<1>4. OneOwner' BY DEF TypeOK, CallTypeOK, MemoryTypeOK, HostTypeOK, MemoryAccounted,
                     FaultRetainsOne, OneOwner
<1>5. QED BY <1>1, <1>2, <1>3, <1>4

\* Nor is the verdict.
LEMMA VerdictKeeps ==
  ASSUME OwnershipInv, Verdict
  PROVE  OwnershipInv'
<1> USE NullAssumption, ChunksAssumption DEF OwnershipInv, Verdict, Waiting,
        callLocals, memory, hostLib, device, gates
<1>1. TypeOK'
  <2>1. CallTypeOK' BY DEF TypeOK, CallTypeOK, Statuses
  <2>2. MemoryTypeOK' BY DEF TypeOK, CallTypeOK, MemoryTypeOK, MemoryAccounted, OneOwner, Statuses
  <2>3. HostTypeOK' BY DEF TypeOK, CallTypeOK, HostTypeOK, MemoryAccounted, Endpoints, Ep, Returns
  <2>4. GateTypeOK' BY DEF TypeOK, GateTypeOK
  <2>5. QED BY <2>1, <2>2, <2>3, <2>4 DEF TypeOK
<1>2. MemoryAccounted' BY DEF TypeOK, CallTypeOK, MemoryTypeOK, MemoryAccounted, FaultRetainsOne, OneOwner
<1>3. FaultRetainsOne' BY DEF TypeOK, CallTypeOK, MemoryTypeOK, MemoryAccounted, FaultRetainsOne, OneOwner
<1>4. OneOwner' BY DEF TypeOK, CallTypeOK, MemoryTypeOK, HostTypeOK, MemoryAccounted,
                     FaultRetainsOne, OneOwner
<1>5. QED BY <1>1, <1>2, <1>3, <1>4

\* A transfer that is over is submitted again.
LEMMA NextTransferKeeps ==
  ASSUME OwnershipInv, NextTransfer
  PROVE  OwnershipInv'
<1> USE NullAssumption, ChunksAssumption DEF OwnershipInv, NextTransfer, Waiting,
        callLocals, memory, hostLib, device, gates
<1>1. TypeOK'
  <2>1. CallTypeOK' BY DEF TypeOK, CallTypeOK, Statuses
  <2>2. MemoryTypeOK' BY DEF TypeOK, CallTypeOK, MemoryTypeOK, MemoryAccounted, OneOwner, Statuses
  <2>3. HostTypeOK' BY DEF TypeOK, CallTypeOK, HostTypeOK, MemoryAccounted, Endpoints, Ep, Returns
  <2>4. GateTypeOK' BY DEF TypeOK, GateTypeOK
  <2>5. QED BY <2>1, <2>2, <2>3, <2>4 DEF TypeOK
<1>2. MemoryAccounted' BY DEF TypeOK, CallTypeOK, MemoryTypeOK, MemoryAccounted, FaultRetainsOne, OneOwner
<1>3. FaultRetainsOne' BY DEF TypeOK, CallTypeOK, MemoryTypeOK, MemoryAccounted, FaultRetainsOne, OneOwner
<1>4. OneOwner' BY DEF TypeOK, CallTypeOK, MemoryTypeOK, HostTypeOK, MemoryAccounted,
                     FaultRetainsOne, OneOwner
<1>5. QED BY <1>1, <1>2, <1>3, <1>4

\* A second one is allocated, with the same semaphore.
LEMMA ReceiveReplyKeeps ==
  ASSUME OwnershipInv, \E t \in Xfers, n \in 1..MaxChunks : ReceiveReply(t, n)
  PROVE  OwnershipInv'
<1> USE NullAssumption, ChunksAssumption DEF OwnershipInv, ReceiveReply, Waiting,
        callLocals, memory, hostLib, device, gates
<1>1. TypeOK'
  <2>1. CallTypeOK' BY DEF TypeOK, CallTypeOK, Statuses
  <2>2. MemoryTypeOK' BY DEF TypeOK, CallTypeOK, MemoryTypeOK, MemoryAccounted, OneOwner, Statuses
  <2>3. HostTypeOK' BY DEF TypeOK, CallTypeOK, HostTypeOK, MemoryAccounted, Endpoints, Ep, Returns
  <2>4. GateTypeOK' BY DEF TypeOK, GateTypeOK
  <2>5. QED BY <2>1, <2>2, <2>3, <2>4 DEF TypeOK
<1>2. MemoryAccounted' BY DEF TypeOK, CallTypeOK, MemoryTypeOK, MemoryAccounted, FaultRetainsOne, OneOwner
<1>3. FaultRetainsOne' BY DEF TypeOK, CallTypeOK, MemoryTypeOK, MemoryAccounted, FaultRetainsOne, OneOwner
<1>4. OneOwner' BY DEF TypeOK, CallTypeOK, MemoryTypeOK, HostTypeOK, MemoryAccounted,
                     FaultRetainsOne, OneOwner
<1>5. QED BY <1>1, <1>2, <1>3, <1>4

\* The loop ends with nothing on its way.
LEMMA LoopEndsKeeps ==
  ASSUME OwnershipInv, LoopEnds
  PROVE  OwnershipInv'
<1> USE NullAssumption, ChunksAssumption DEF OwnershipInv, LoopEnds, Waiting,
        callLocals, memory, hostLib, device, gates
<1>1. TypeOK'
  <2>1. CallTypeOK' BY DEF TypeOK, CallTypeOK, Statuses
  <2>2. MemoryTypeOK' BY DEF TypeOK, CallTypeOK, MemoryTypeOK, MemoryAccounted, OneOwner, Statuses
  <2>3. HostTypeOK' BY DEF TypeOK, CallTypeOK, HostTypeOK, MemoryAccounted, Endpoints, Ep, Returns
  <2>4. GateTypeOK' BY DEF TypeOK, GateTypeOK
  <2>5. QED BY <2>1, <2>2, <2>3, <2>4 DEF TypeOK
<1>2. MemoryAccounted' BY DEF TypeOK, CallTypeOK, MemoryTypeOK, MemoryAccounted, FaultRetainsOne, OneOwner
<1>3. FaultRetainsOne' BY DEF TypeOK, CallTypeOK, MemoryTypeOK, MemoryAccounted, FaultRetainsOne, OneOwner
<1>4. OneOwner' BY DEF TypeOK, CallTypeOK, MemoryTypeOK, HostTypeOK, MemoryAccounted,
                     FaultRetainsOne, OneOwner
<1>5. QED BY <1>1, <1>2, <1>3, <1>4

\* What is freed is neither with the library nor in its queue.
LEMMA FreeKeeps ==
  ASSUME OwnershipInv, Free
  PROVE  OwnershipInv'
<1> USE NullAssumption, ChunksAssumption DEF OwnershipInv, Free, Leave, Waiting,
        callLocals, memory, hostLib, device, gates
<1>1. TypeOK'
  <2>1. CallTypeOK' BY OneIsLeft DEF TypeOK, CallTypeOK, Statuses
  <2>2. MemoryTypeOK' BY DEF TypeOK, CallTypeOK, MemoryTypeOK, MemoryAccounted, OneOwner, Statuses
  <2>3. HostTypeOK' BY DEF TypeOK, CallTypeOK, HostTypeOK, MemoryAccounted, Endpoints, Ep, Returns
  <2>4. GateTypeOK' BY DEF TypeOK, GateTypeOK
  <2>5. QED BY <2>1, <2>2, <2>3, <2>4 DEF TypeOK
<1>2. MemoryAccounted' BY DEF TypeOK, CallTypeOK, MemoryTypeOK, MemoryAccounted, FaultRetainsOne, OneOwner
<1>3. FaultRetainsOne' BY DEF TypeOK, CallTypeOK, MemoryTypeOK, MemoryAccounted, FaultRetainsOne, OneOwner
<1>4. OneOwner' BY DEF TypeOK, CallTypeOK, MemoryTypeOK, HostTypeOK, MemoryAccounted,
                     FaultRetainsOne, OneOwner
<1>5. QED BY <1>1, <1>2, <1>3, <1>4

\* The library hands a transfer to its queue.
LEMMA CompleteKeeps ==
  ASSUME OwnershipInv, NEW x \in Xfers, NEW st \in {"completed", "error", "noDevice"}, Complete(x, st)
  PROVE  OwnershipInv'
<1> USE NullAssumption, ChunksAssumption DEF OwnershipInv, Complete, Waiting,
        callLocals, memory, hostLib, device, gates
<1>1. TypeOK'
  <2>1. CallTypeOK' BY DEF TypeOK, CallTypeOK, Statuses
  <2>2. MemoryTypeOK' BY DEF TypeOK, CallTypeOK, MemoryTypeOK, MemoryAccounted, OneOwner, Statuses
  <2>3. HostTypeOK' BY DEF TypeOK, CallTypeOK, HostTypeOK, MemoryAccounted, Endpoints, Ep, Returns
  <2>4. GateTypeOK' BY DEF TypeOK, GateTypeOK
  <2>5. QED BY <2>1, <2>2, <2>3, <2>4 DEF TypeOK
<1>2. MemoryAccounted' BY DEF TypeOK, CallTypeOK, MemoryTypeOK, MemoryAccounted, FaultRetainsOne, OneOwner
<1>3. FaultRetainsOne' BY DEF TypeOK, CallTypeOK, MemoryTypeOK, MemoryAccounted, FaultRetainsOne, OneOwner
<1>4. OneOwner' BY DEF TypeOK, CallTypeOK, MemoryTypeOK, HostTypeOK, MemoryAccounted,
                     FaultRetainsOne, OneOwner
<1>5. QED BY <1>1, <1>2, <1>3, <1>4

\* usb_task gives the token of a transfer that is over.
LEMMA CallbackKeeps ==
  ASSUME OwnershipInv, NEW x \in Xfers, Callback(x)
  PROVE  OwnershipInv'
<1> USE NullAssumption, ChunksAssumption DEF OwnershipInv, Callback, Waiting,
        callLocals, memory, hostLib, device, gates
<1>1. TypeOK'
  <2>1. CallTypeOK' BY DEF TypeOK, CallTypeOK, Statuses
  <2>2. MemoryTypeOK'
    <3>1. ctx[x] \in Sems
      <4>1. CASE pc \in Waiting BY <4>1 DEF MemoryAccounted, OneOwner
      <4>2. CASE pc \notin Waiting
        <5>1. x \in retained BY <4>2 DEF OneOwner
        <5>2. pc \in {"idle", "done"} BY <5>1 DEF FaultRetainsOne
        <5>3. QED BY <5>1, <5>2 DEF MemoryAccounted, FaultRetainsOne, TypeOK, MemoryTypeOK
      <4>3. QED BY <4>1, <4>2
    <3>2. QED BY <3>1 DEF TypeOK, MemoryTypeOK
  <2>3. HostTypeOK' BY DEF TypeOK, CallTypeOK, HostTypeOK, MemoryAccounted, Endpoints, Ep, Returns
  <2>4. GateTypeOK' BY DEF TypeOK, GateTypeOK
  <2>5. QED BY <2>1, <2>2, <2>3, <2>4 DEF TypeOK
<1>2. MemoryAccounted' BY DEF TypeOK, CallTypeOK, MemoryTypeOK, MemoryAccounted, FaultRetainsOne, OneOwner
<1>3. FaultRetainsOne' BY DEF TypeOK, CallTypeOK, MemoryTypeOK, MemoryAccounted, FaultRetainsOne, OneOwner
<1>4. OneOwner' BY DEF TypeOK, CallTypeOK, MemoryTypeOK, HostTypeOK, MemoryAccounted,
                     FaultRetainsOne, OneOwner
<1>5. QED BY <1>1, <1>2, <1>3, <1>4
\* Every other step leaves the ownership alone.
LEMMA OthersKeep ==
  ASSUME OwnershipInv,
         DevGone \/ EventsReturn \/ TryLease \/ Attach \/ Unplug \/ ClearQuarantine \/ UNCHANGED vars
  PROVE  OwnershipInv'
<1> USE DEF OwnershipInv, DevGone, EventsReturn, TryLease, Attach, Unplug, ClearQuarantine,
        vars, callLocals, memory, hostLib, device, gates
<1>1. CallTypeOK' BY DEF TypeOK, CallTypeOK
<1>2. MemoryTypeOK' BY DEF TypeOK, MemoryTypeOK
<1>3. HostTypeOK' BY DEF TypeOK, HostTypeOK
<1>4. GateTypeOK' BY DEF TypeOK, GateTypeOK
<1>5. MemoryAccounted' BY DEF MemoryAccounted
<1>6. FaultRetainsOne' BY DEF FaultRetainsOne
<1>7. OneOwner' BY DEF OneOwner
<1>8. QED BY <1>1, <1>2, <1>3, <1>4, <1>5, <1>6, <1>7 DEF TypeOK

\* So every step of the calls, the library, usb_task and the device preserves it.
LEMMA StepKeeps == ASSUME OwnershipInv, [Next]_vars PROVE OwnershipInv'
<1>1. CASE Begin BY <1>1, BeginStatusKeeps, BeginOutputKeeps DEF Begin
<1>2. CASE CallStep
  BY <1>2, BeginAwaitKeeps, NoAwaitKeeps, SubmitAcceptedKeeps, SubmitRejectedKeeps, WokenKeeps,
     WaitExpiresKeeps, HaltKeeps, FlushKeeps, GraceTakenKeeps, GraceExpiresKeeps,
     ClearReturnsKeeps, VerdictKeeps, NextTransferKeeps, ReceiveReplyKeeps, LoopEndsKeeps,
     FreeKeeps
  DEF CallStep
<1>3. CASE HostStep BY <1>3, CompleteKeeps DEF HostStep, ReportsGone
<1>4. CASE UsbStep BY <1>4, CallbackKeeps, OthersKeep DEF UsbStep
<1>5. CASE Unplug \/ ClearQuarantine \/ UNCHANGED vars BY <1>5, OthersKeep
<1>6. QED BY <1>1, <1>2, <1>3, <1>4, <1>5 DEF Next

\* The ownership invariant holds for any number of transfers, semaphores and chunks.
THEOREM Ownership == Spec => []OwnershipInv
<1>1. Init => OwnershipInv BY OwnershipInit
<1>2. OwnershipInv /\ [Next]_vars => OwnershipInv' BY StepKeeps
<1>3. QED BY <1>1, <1>2, PTL DEF Spec

-----------------------------------------------------------------------------
(* What follows from it.                                                   *)

\* xfer_cb never gives a deleted semaphore, and the library never writes to a freed
\* transfer, however late.
THEOREM CallbacksSafe == Spec => []CallbacksTouchLiveMemory
<1>1. ASSUME OwnershipInv, NEW t \in flying \cup queue PROVE t \in live /\ ctx[t] \in liveSems
  <2>1. CASE pc \in Waiting
    BY <1>1, <2>1 DEF OwnershipInv, OneOwner, MemoryAccounted, Waiting
  <2>2. CASE pc \notin Waiting
    <3>1. t \in retained BY <1>1, <2>2 DEF OwnershipInv, OneOwner
    <3>2. pc \in {"idle", "done"} BY <1>1, <3>1 DEF OwnershipInv, FaultRetainsOne
    <3>3. QED BY <1>1, <3>1, <3>2 DEF OwnershipInv, FaultRetainsOne, MemoryAccounted
  <2>3. QED BY <2>1, <2>2
<1>2. OwnershipInv => CallbacksTouchLiveMemory BY <1>1 DEF CallbacksTouchLiveMemory
<1>3. QED BY <1>2, Ownership, PTL

\* submit_and_wait and the loops around it act only on transfers that are over.
THEOREM WaitersWokenRightly == Spec => []WokenByItsOwnTransfer
<1>1. OwnershipInv => WokenByItsOwnTransfer
  BY DEF OwnershipInv, FaultRetainsOne, OneOwner, Waiting, WokenByItsOwnTransfer
<1>2. QED BY <1>1, Ownership, PTL

\* The cleanup of every call frees all it allocated but one transfer of the boot.
THEOREM NoLeaks == Spec => []NothingLeaks
<1>1. ASSUME OwnershipInv PROVE Cardinality(retained) <= 1
  <2>1. CASE retained = {} BY <2>1, FS_EmptySet
  <2>2. CASE retained # {}
    <3>1. PICK t \in Xfers : retained = {t} BY <1>1, <2>2 DEF OwnershipInv, FaultRetainsOne
    <3>2. QED BY <3>1, FS_Singleton
  <2>3. QED BY <2>1, <2>2
<1>2. OwnershipInv => NothingLeaks
  BY <1>1 DEF OwnershipInv, MemoryAccounted, FaultRetainsOne, NothingLeaks
<1>3. QED BY <1>2, Ownership, PTL

\* The verdict on a cancelled transfer is its status.
THEOREM LateSuccess == Spec => LateSuccessCounts
<1>1. ASSUME OwnershipInv, [Next]_vars, ~quarantined, quarantined'
      PROVE  status[cur] # "completed" \/ cur \in queue
  <2>1. CASE Verdict BY <1>1, <2>1 DEF Verdict
  <2>2. CASE GraceExpires
    <3>1. cur \in flying \cup queue BY <2>2, <1>1 DEF OwnershipInv, OneOwner, Waiting, GraceExpires
    <3>2. QED BY <1>1, <3>1 DEF OwnershipInv, OneOwner
  <2>3. ~Verdict /\ ~GraceExpires => quarantined' = quarantined \/ quarantined' = FALSE
    BY <1>1 DEF Next, Begin, BeginStatus, BeginOutput, BeginAwait, Allocate, CallStep, NoAwait,
       SubmitAccepted, SubmitRejected, Woken, WaitExpires, Halt, Flush, GraceTaken, ClearReturns,
       NextTransfer, ReceiveReply, LoopEnds, Free, Leave, UsbStep, Callback, DevGone,
       EventsReturn, TryLease, Attach, HostStep, ReportsGone, Complete, Unplug, ClearQuarantine,
       vars, gates
  <2>4. QED BY <1>1, <2>1, <2>2, <2>3
<1>2. OwnershipInv /\ [Next]_vars
        => [~quarantined /\ quarantined' => status[cur] # "completed" \/ cur \in queue]_vars
  BY <1>1
<1>3. QED BY <1>2, Ownership, PTL DEF Spec, LateSuccessCounts
-----------------------------------------------------------------------------
(* Endpoints.                                                              *)

\* A cancellation ends with the endpoint cleared, if the library obeys it.
LEMMA EndpointsKept ==
  ASSUME OwnershipInv, EndpointInv, [Next]_vars
  PROVE  EndpointInv'
<1> USE DEF EndpointInv
<1>1. ep \in [Endpoints -> {"active", "halted"}] /\ Ep \in Endpoints /\ sound \in BOOLEAN
  BY DEF OwnershipInv, TypeOK, HostTypeOK, GateTypeOK, Ep, Endpoints
<1>2. ~Attach => (present' => present)
  BY DEF Next, Begin, BeginStatus, BeginOutput, BeginAwait, Allocate, CallStep, NoAwait,
     SubmitAccepted, SubmitRejected, Woken, WaitExpires, Halt, Flush, GraceTaken, GraceExpires,
     ClearReturns, Verdict, NextTransfer, ReceiveReply, LoopEnds, Free, Leave, UsbStep, Callback,
     DevGone, EventsReturn, TryLease, HostStep, ReportsGone, Complete, Unplug, ClearQuarantine,
     vars, gates, device
<1>3. CASE Halt
  <2>1. UNCHANGED <<kind, mine, cur, erred, present, sound>> /\ pc' = "flush"
    BY <1>3 DEF Halt, device, gates
  <2>2. Ep' = Ep
    BY <2>1 DEF Ep
  <2>3. ep' = ep \/ ep' = [ep EXCEPT ![Ep] = "halted"]
    BY <1>3 DEF Halt, HaltReturns
  <2>4. pc = "halt"
    BY <1>3 DEF Halt
  <2> QED
    BY <1>1, <2>1, <2>2, <2>3, <2>4
<1>4. CASE Flush
  <2>1. UNCHANGED <<kind, mine, cur, erred, present, sound, ep>> /\ pc' = "grace"
    BY <1>4 DEF Flush, device, gates
  <2>2. Ep' = Ep
    BY <2>1 DEF Ep
  <2>3. sound /\ present /\ ep[Ep] = "halted" => undo'
    BY <1>4 DEF Flush, FlushReturns, Returns
  <2>4. pc = "flush"
    BY <1>4 DEF Flush
  <2> QED
    BY <1>1, <2>1, <2>2, <2>3, <2>4
<1>5. CASE GraceTaken
  <2>1. UNCHANGED <<kind, mine, cur, erred, present, sound, ep, undo>> /\ pc = "grace"
    BY <1>5 DEF GraceTaken, device, gates, callLocals, hostLib
  <2>2. Ep' = Ep /\ (undo => pc' = "clear")
    BY <1>5, <2>1 DEF Ep, GraceTaken
  <2> QED
    BY <2>1, <2>2
<1>6. CASE GraceExpires
  BY <1>6 DEF GraceExpires
<1>7. CASE ClearReturns
  <2>1. UNCHANGED <<present, sound>> /\ pc = "clear" /\ pc' = "verdict"
    BY <1>7 DEF ClearReturns, device, gates
  <2>2. sound /\ present => ep' = [ep EXCEPT ![Ep] = "active"] /\ erred' = erred \ {Ep}
    BY <1>7 DEF ClearReturns, Returns
  <2> QED
    BY <1>1, <2>1, <2>2
<1>8. CASE Attach
  BY <1>8 DEF Attach
<1>9. CASE HostStep
  <2>1. PICK t \in Xfers, s \in Statuses : Complete(t, s)
    BY <1>9 DEF HostStep, ReportsGone, Statuses
  <2>2. UNCHANGED <<kind, mine, cur, undo, pc, present, sound>>
    BY <2>1 DEF Complete, callLocals, device, gates
  <2>3. Ep' = Ep
    BY <2>2 DEF Ep
  <2>4. \/ ep' = ep /\ erred' = erred
        \/ ep' = [ep EXCEPT ![Ep] = "halted"] /\ erred' = erred \cup {Ep}
    BY <2>1 DEF Complete
  <2> QED
    BY <1>1, <2>2, <2>3, <2>4
<1>10. CASE UNCHANGED <<pc, callLocals, ep, erred, sound>> /\ ~Attach
  <2>1. Ep' = Ep
    BY <1>10 DEF Ep, callLocals
  <2> QED
    BY <1>2, <1>10, <2>1 DEF callLocals
<1>11. CASE /\ UNCHANGED <<ep, erred, sound>> /\ ~Attach
            /\ pc \notin {"flush", "grace", "clear"}
  BY <1>2, <1>11
<1>12. \/ Halt \/ Flush \/ GraceTaken \/ GraceExpires \/ ClearReturns \/ Attach \/ HostStep
       \/ UNCHANGED <<pc, callLocals, ep, erred, sound>> /\ ~Attach
       \/ /\ UNCHANGED <<ep, erred, sound>> /\ ~Attach
          /\ pc \notin {"flush", "grace", "clear"}
  <2>1. CASE Begin
    BY <2>1 DEF Begin, BeginStatus, BeginOutput, Allocate, hostLib, gates
  <2>2. CASE CallStep
    BY <2>2 DEF CallStep, BeginAwait, Allocate, NoAwait, SubmitAccepted, SubmitRejected, Woken,
       WaitExpires, Verdict, NextTransfer, ReceiveReply, LoopEnds, Free, Leave, hostLib, gates
  <2>3. CASE UsbStep \/ Unplug \/ ClearQuarantine
    BY <2>3 DEF UsbStep, Callback, DevGone, EventsReturn, TryLease, Unplug, ClearQuarantine,
       hostLib, gates
  <2>4. CASE UNCHANGED vars
    BY <2>4 DEF vars, hostLib, gates, callLocals
  <2> QED
    BY <2>1, <2>2, <2>3, <2>4 DEF Next
<1> QED
  BY <1>3, <1>4, <1>5, <1>6, <1>7, <1>8, <1>9, <1>10, <1>11, <1>12

\* No reclaimed timeout leaves an endpoint halted, whatever library call failed in it.
THEOREM EndpointsRecover == Spec => []EndpointsComeBack
<1>1. Init => EndpointInv BY DEF Init, EndpointInv
<1>2. OwnershipInv /\ EndpointInv /\ [Next]_vars => EndpointInv' BY EndpointsKept
<1>3. EndpointInv => EndpointsComeBack BY DEF EndpointInv, EndpointsComeBack
<1>4. QED BY <1>1, <1>2, <1>3, Ownership, PTL DEF Spec
=============================================================================
