------------------------------ MODULE MCIngest ------------------------------
(* Two threads; the data thread has two groups which use the same msgId,    *)
(* and handlers under the msgIds of a status (0) and of a tick (9).         *)
EXTENDS Ingest, TLC

Activate == <<"task", 1>>
DataActive == <<"data", 0>>
AgentData == <<"data", 3>>
StatsReq == <<"oam", 3>>
TimedReq == <<"oam", 9>>
StatsResp == <<"oam", 4>>

MCSubRoutes == <<Activate, DataActive, AgentData, StatsReq, TimedReq>>
MCThreadOf == [e \in {Activate, DataActive, AgentData, StatsReq, TimedReq} |->
                  IF e = Activate THEN "task" ELSE "data"]
MCPublishes == {DataActive, StatsResp}
MCTables == [task |-> {Activate}, data |-> {DataActive, AgentData, StatsReq, TimedReq}]
MCReaction == (Activate :> [kind |-> "internal", to |-> DataActive])
              @@ (StatsReq :> [kind |-> "external", to |-> StatsResp])
MCPlain == {DataActive}
MCRequests == {Activate, AgentData, StatsReq, TimedReq}

ASSUME MCOwnTargets == OwnTargets
=============================================================================
