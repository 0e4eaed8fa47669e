----------------------------- MODULE MCServices -----------------------------
(* The parts around the mailbox, for TLC: a call on another host, the event *)
(* table with its two readers, the kernels of a session, the manager's      *)
(* pull, a background job and the reads of an agent.  They share no         *)
(* variable, so the run explores them side by side and not their product.   *)
EXTENDS RemoteWire, EventStore, SwarmKernel, ManagerPull, BackgroundJob, MailboxRead

VARIABLE part

serviceVars == <<part, wireVars, eventVars, kernelVars, pullVars, jobVars, readVars>>

Parts == {"wire", "watch", "peer", "kernel", "pull", "job", "read"}

Init ==
    /\ part \in Parts
    /\ WireInit /\ EventInit /\ KernelInit /\ PullInit /\ JobInit /\ ReadInit
    \* the choices of the parts that stand still
    /\ part # "wire" => via = CHOOSE v \in Vias : TRUE
    /\ part # "wire" => wire = <<>>
    /\ part # "kernel" => session = "none"

InWire   == part = "wire" /\ UNCHANGED <<part, eventVars, kernelVars, pullVars, jobVars, readVars>>
InEvents == UNCHANGED <<part, wireVars, kernelVars, pullVars, jobVars, readVars>>
InKernel == part = "kernel" /\ UNCHANGED <<part, wireVars, eventVars, pullVars, jobVars, readVars>>
InPull   == part = "pull" /\ UNCHANGED <<part, wireVars, eventVars, kernelVars, jobVars, readVars>>
InJob    == part = "job" /\ UNCHANGED <<part, wireVars, eventVars, kernelVars, pullVars, readVars>>
InRead   == part = "read" /\ UNCHANGED <<part, wireVars, eventVars, kernelVars, pullVars, jobVars>>

\* The readers of the event table only read it: each is explored alone, and
\* the watch, to which the sources of events are all alike, with one source.
Next ==
    \/ InWire /\ WireNext
    \/ part = "watch" /\ InEvents /\ (StoreNext({CHOOSE s \in Sources : TRUE}) \/ WatchNext)
    \/ part = "peer" /\ InEvents /\ (StoreNext(Sources) \/ PeerReceives)
    \/ InKernel /\ KernelNext
    \/ InPull /\ PullNext
    \/ InJob /\ JobNext
    \/ InRead /\ ReadNext

\* The helper and the client go on until the call is over, a hung call meets
\* its time limit, and the manager's loop goes on while it is up.
Spec ==
    /\ Init /\ [][Next]_serviceVars
    /\ WF_serviceVars(InWire /\ answer = Pending /\ HelperStep)
    /\ WF_serviceVars(InWire /\ answer = Pending /\ ClientStep)
    /\ WF_serviceVars(InWire /\ helper.at = "hung" /\ Timeout)
    /\ WF_serviceVars(InPull /\ LoopStep)
=============================================================================
