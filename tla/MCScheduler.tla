---------------------------- MODULE MCScheduler ----------------------------
(* The scheduler, SynchList and the post office for TLC: the components    *)
(* share no state, so a behaviour is one of the component "part" names     *)
(* while the others rest in their initial state.                           *)
EXTENDS Scheduler, SynchList, PostOffice

VARIABLE part

MCInit ==
    /\ part \in {"scheduler", "synchlist", "postoffice"}
    /\ SchedInit
    /\ SynchListInit
    /\ PostOfficeInit
    /\ part # "postoffice" => ~reliable

MCNext ==
    /\ UNCHANGED part
    /\ \/ part = "scheduler" /\ SchedNext /\ UNCHANGED <<slVars, poVars>>
       \/ part = "synchlist" /\ SynchListNext /\ UNCHANGED <<schedVars, poVars>>
       \/ part = "postoffice" /\ PostOfficeNext /\ UNCHANGED <<schedVars, slVars>>

Mail == part = "postoffice" /\ reliable

(* The fairness of SchedFairness for the scheduler; the mail test and its  *)
(* helpers run on when they can, where no packet is lost.  Each is asked   *)
(* of the part that runs.                                                  *)
MCFairness ==
    /\ WF_schedVars(part = "scheduler" /\ Yield)
    /\ WF_schedVars(part = "scheduler" /\ Dispatch)
    /\ WF_schedVars(/\ part = "scheduler" /\ level = "IntOff"
                    /\ EnableInterrupts \/ WakeThenSleep(<<>>))
    /\ \A m \in NetMachine :
          /\ WF_poVars(Mail /\ MailTest(m) /\ UNCHANGED reliable)
          /\ WF_poVars(Mail /\ Deliver(m) /\ UNCHANGED reliable)
          /\ \A c \in Clerk :
                WF_poVars(Mail /\ ClerkSends(c, m) /\ UNCHANGED reliable)

MCSpec == MCInit /\ [][MCNext]_<<part, schedVars, slVars, poVars>> /\ MCFairness
=============================================================================
