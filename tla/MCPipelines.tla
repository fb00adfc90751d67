----------------------------- MODULE MCPipelines -----------------------------
(* What runs in the background and must come to an end: replay batches,    *)
(* syncs of the external ledger, report syncs, sweeps of the open events   *)
(* and mails.  A behaviour follows one of them, and the others stay as they   *)
(* began; only the one that is followed is owed progress.                  *)
EXTENDS LeadReplay, ExternalLedger, MetaReports, ChannelRoutes, TransactionalEmail

CONSTANTS c1, q1

VARIABLE focus

RowContacts == [r \in Rows |-> c1]

RowTypes == [r \in Rows |-> IF r = q1 THEN "qualified_lead" ELSE "conversation_started"]

PipelineInit ==
  /\ ReplayInit /\ LedgerInit /\ ReportInit /\ RouteInit /\ MailInit
  /\ focus \in {"replay", "ledger", "reports", "routes", "mail"}
  /\ daily /\ leadAt = "ad"
  /\ focus # "replay" => connection.status = "observation" /\ ~certified

(* A link that is mailed has its own behaviours, apart from invitations. *)
MailScene == issued' = {} \/ \A i \in MailInvites : card'[i].version = 0

PipelineNext ==
  /\ UNCHANGED focus
  /\ \/ focus = "replay" /\ ReplayNext /\ UNCHANGED <<ledgerVars, reportVars, routeVars, mailVars>>
     \/ focus = "ledger" /\ LedgerNext /\ UNCHANGED <<replayVars, reportVars, routeVars, mailVars>>
     \/ focus = "reports" /\ ReportNext /\ UNCHANGED <<replayVars, ledgerVars, routeVars, mailVars>>
     \/ focus = "routes" /\ RouteNext /\ UNCHANGED <<replayVars, ledgerVars, reportVars, mailVars>>
     \/ focus = "mail" /\ MailNext /\ MailScene /\ UNCHANGED <<replayVars, ledgerVars, reportVars, routeVars>>

(* ReplayFairness, LedgerFairness, ReportFairness, RouteFairness and       *)
(* MailFairness, each for its own behaviours.                              *)
PipelineFairness ==
  /\ WF_replayVars(focus = "replay" /\ ItemWork) /\ WF_replayVars(focus = "replay" /\ BatchWork)
  /\ WF_replayVars(focus = "replay" /\ OpWork)
  /\ \A e \in Events :
       /\ SF_replayVars(focus = "replay" /\ TakeItem(e))
       /\ WF_replayVars(focus = "replay" /\ (ItemStalled(e) \/ ItemBackoff(e) \/ RecoverItem(e)))
  /\ \A b \in Batches :
       /\ SF_replayVars(focus = "replay" /\ TakeBatch(b))
       /\ WF_replayVars(focus = "replay" /\ (BatchStalled(b) \/ BatchBackoff(b)))
  /\ WF_ledgerVars(focus = "ledger" /\ EnqueueDueConnectors)
  /\ \A j \in Syncs : WF_ledgerVars(focus = "ledger" /\ SyncStep(j))
  /\ WF_reportVars(focus = "reports" /\ \E s \in Pulls : SyncDueWorkspaces(s))
  /\ \A s \in Pulls : WF_reportVars(focus = "reports" /\ PullStep(s))
  /\ \A o \in Edits : WF_reportVars(focus = "reports" /\ (CallMeta(o) \/ SaveEdit(o)))
  /\ \A s \in Sweepers :
       /\ WF_routeVars(focus = "routes" /\ SyncReevaluates(s)) /\ WF_routeVars(focus = "routes" /\ ReadOpen(s))
       /\ WF_routeVars(focus = "routes" /\ LearnRoutes(s)) /\ WF_routeVars(focus = "routes" /\ DecideRoutes(s))
       /\ WF_routeVars(focus = "routes" /\ WriteDecisions(s))
  /\ \A m \in Mails :
       /\ WF_mailVars(focus = "mail" /\ MailStep(m)) /\ WF_mailVars(focus = "mail" /\ TakeMail(m))
       /\ WF_mailVars(focus = "mail" /\ MailBackoff(m))

PipelineSpec ==
  PipelineInit /\ [][PipelineNext]_<<replayVars, ledgerVars, reportVars, routeVars, mailVars, focus>> /\ PipelineFairness
=============================================================================
