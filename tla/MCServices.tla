----------------------------- MODULE MCServices -----------------------------
(***************************************************************************)
(* Instances for TLC of five parts that share no state with each other:    *)
(* the preview message, the session store, the way of an inbound message,  *)
(* the agents with one process per prompt and Claude Code. A behaviour is  *)
(* one of a single part, chosen at the start; the others stand still.      *)
(***************************************************************************)
EXTENDS StreamPreview, SessionStore, Inbound, PromptSession, ClaudeSession, TLC

VARIABLE part

servicesVars == <<part, previewVars, storeVars, inboundVars, promptVars, claudeVars>>

Init ==
  /\ part \in {"preview", "store", "inbound", "prompt", "claude"}
  /\ PreviewInit
  /\ part = "preview" \/ ~cleaner
  /\ StoreInit
  /\ InboundInit
  /\ part = "inbound" \/ (platform = "telegram" /\ knowsSelf)
  /\ PromptInit
  /\ part = "prompt" \/ (adapter = "codex" /\ sessionID = NoConv)
  /\ ClaudeInit
  /\ part = "claude" \/ ~autoApprove

\* Bound of the prompts: a third one is codex's, in a session that nobody closes.
FewPrompts == sender'.call = MaxCall => adapter = "codex" /\ ~cancelled'

\* Bound of the intake: a restart leaves time for the TTL and a whole window.
EarlyRestarts == startTime' # startTime => clock + Window < MaxNow

Next ==
  /\ UNCHANGED part
  /\ \/ /\ part = "preview"
        /\ PreviewNext
        /\ UNCHANGED <<storeVars, inboundVars, promptVars, claudeVars>>
     \/ /\ part = "store"
        /\ StoreNext
        /\ UNCHANGED <<previewVars, inboundVars, promptVars, claudeVars>>
     \/ /\ part = "inbound"
        /\ InboundNext /\ EarlyRestarts
        /\ UNCHANGED <<previewVars, storeVars, promptVars, claudeVars>>
     \/ /\ part = "prompt"
        /\ PromptNext /\ FewPrompts
        /\ UNCHANGED <<previewVars, storeVars, inboundVars, claudeVars>>
     \/ /\ part = "claude"
        /\ ClaudeNext
        /\ UNCHANGED <<previewVars, storeVars, inboundVars, promptVars>>

Spec == Init /\ [][Next]_servicesVars

\* Messages are interchangeable. Used for safety properties only.
Symmetry == Permutations(Message)

-----------------------------------------------------------------------------
\* The state of each service (streaming.go, session.go, dedup.go, ratelimit.go
\* and the sessions of the agents) stays well formed.
ServicesTypeOK ==
  CASE part = "preview" -> PreviewTypeOK
    [] part = "store" -> StoreTypeOK
    [] part = "inbound" -> InboundTypeOK
    [] part = "prompt" -> PromptTypeOK
    [] part = "claude" -> ClaudeTypeOK

\* The sessions of the agents keep the promises of AgentSession while processes of several
\* prompts overlap, requests are taken back and Close comes at any time: nothing starts
\* on a session that was stopped, every event comes from a worker, and only one that
\* Close left behind can send on the closed channel; Claude Code leaves none behind.
AgentsKeepContract == PromptKeepsContract /\ ClaudeKeepsContract
=============================================================================
