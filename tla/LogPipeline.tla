----------------------------- MODULE LogPipeline -----------------------------
(* A Logger whose policies include a ConsoleLogPolicy, as Test.cpp and the    *)
(* README set it up: two queues and two threads one behind the other. The     *)
(* logger's processor is the only writer of the policy, and the policy is     *)
(* destroyed when the logger, which holds the last reference, is gone.        *)
EXTENDS Logger

CONSTANT console       \* the policy of Policies that is the ConsoleLogPolicy

ASSUME PipelineAssumption == console \in Policies

VARIABLES cQueue, cStop, cAsleep, cPc, cThreadPc, cMessage, printed, cWritten, cDtor

cVars == <<cQueue, cStop, cAsleep, cPc, cThreadPc, cMessage, printed, cWritten, cDtor>>
pipeVars == <<vars, cVars>>

Console == INSTANCE ConsoleLogPolicy WITH
               Writers <- {processor},
               message_queue_ <- cQueue, stop_ <- cStop, asleep <- cAsleep,
               pc <- cPc, threadPc <- cThreadPc, message <- cMessage,
               written <- cWritten, dtor <- cDtor

PipeInit == Init /\ Console!Init

\* The policies are added before the first message is logged.
LoggerOnly == /\ QuietStep
              /\ \A t \in Callers : pc'[t] = "log" => console \in Added
              /\ UNCHANGED cVars

\* policy->Write() of the console: queue the message, then notify and return.
BeginWrite == /\ pc[processor] = "deliver" /\ policies_[at[processor]] = console
              /\ Console!Push(processor)
              /\ UNCHANGED vars

WriteToConsole == /\ pc[processor] = "deliver" /\ policies_[at[processor]] = console
                  /\ Console!Notify(processor)
                  /\ Deliver

WriteElsewhere == /\ pc[processor] = "deliver" /\ policies_[at[processor]] # console
                  /\ Deliver
                  /\ UNCHANGED cVars

ConsoleThread == /\ Console!ThreadStep \/ Console!Spurious
                 /\ UNCHANGED vars

DropConsole == /\ dtor = "done"
               /\ Console!Stop \/ Console!DestroyStep
               /\ UNCHANGED vars

PipeNext == LoggerOnly \/ BeginWrite \/ WriteToConsole \/ WriteElsewhere
            \/ ConsoleThread \/ DropConsole

PipeSpec == PipeInit /\ [][PipeNext]_pipeVars

PipeFairness == /\ Fairness
                /\ WF_pipeVars(BeginWrite \/ WriteToConsole \/ WriteElsewhere)
                /\ WF_pipeVars(Console!ThreadStep /\ UNCHANGED vars)
                /\ WF_pipeVars(dtor = "done" /\ Console!Stop /\ UNCHANGED vars)
                /\ WF_pipeVars(Console!DestroyStep /\ UNCHANGED vars)

FairPipeSpec == PipeSpec /\ PipeFairness
-------------------------------------------------------------------------------
\* The variables of both components keep their types.
PipeTypeOK == TypeOK /\ Console!TypeOK

\* The message thread_ has taken, while the console has not been given it.
ToConsole ==
    IF pc[processor] = "deliver" /\ ~\E i \in 1..(at[processor] - 1) : policies_[i] = console
    THEN <<message>> ELSE <<>>

\* What the console was given, what is about to be and what is queued are all
\* messages in the order of Log(); inside the console the same holds of what is
\* printed, being printed and queued: none is lost, repeated or overtaken.
NothingMissing == /\ got[console] \o ToConsole \o queue_ = [i \in 1..written |-> i]
                  /\ Console!NoneMissing

\* Neither thread sleeps with work to do, unless its wakeup is on the way.
SleepsAreSafe == SleepIsSafe /\ Console!SleepIsSafe

\* Which message of the logger the k-th Write() of the console was given.
Content(k) == IF k <= Len(got[console]) THEN got[console][k] ELSE message

Shown == [i \in 1..Len(printed) |-> Content(printed[i])]

\* Logger, queue, policy and policy's queue together are one ordered log: what
\* is logged is printed in that order, each message once, and all of it before
\* the logger and its policy are gone.
Whole == INSTANCE OrderedLog WITH
             accepted <- written, out <- Shown, closed <- cDtor = "done"

PipelineImplementsLog == Whole!LogSpec

\* Every message logged is printed.
EveryMessageShown ==
    \A m \in 1..MaxMessages : written >= m ~> \E i \in 1..Len(Shown) : Shown[i] = m

\* Destroying the logger and then its policy comes to an end.
TeardownEnds == stop_ ~> cDtor = "done"
===============================================================================
