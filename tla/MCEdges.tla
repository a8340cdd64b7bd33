------------------------------ MODULE MCEdges ------------------------------
(***************************************************************************)
(* Instances for TLC of the parts around the engine, which share no state  *)
(* with each other: cron, the gateway of the QQ bot, the OneBot platform,  *)
(* the relay between bots, iFlow, the settings, the conversations, the way *)
(* of a message, the life of the process, its upgrade, and the replies of  *)
(* the QQ bot. A behaviour is one of a single part, chosen at the start;   *)
(* the others stand still.                                                 *)
(***************************************************************************)
EXTENDS CronScheduler, Gateway, OneBot, Relay, IFlowSession, Settings, Conversations, Dispatch,
        Lifecycle, Upgrade, QQBotSender, TLC

VARIABLE part

edgesVars == <<part, cronVars, gatewayVars, onebotVars, relayVars, iflowVars, settingsVars,
               conversationVars, dispatchVars, lifecycleVars, upgradeVars, senderVars>>

Init ==
  /\ part \in {"cron", "gateway", "onebot", "relay", "iflow", "settings", "conversations", "dispatch",
              "lifecycle", "upgrade", "sender"}
  /\ CronInit
  /\ GatewayInit
  /\ OneBotInit
  /\ RelayInit
  /\ part = "relay" \/ engines = Bot
  /\ IFlowInit
  /\ part = "iflow" \/ iflowID = "unknown"
  /\ SettingsInit
  /\ part = "settings" \/ file.providers = <<>>
  /\ ConversationInit
  /\ part = "conversations" \/ agent = "codex"
  /\ DispatchInit
  /\ part = "dispatch" \/ disabledCmds = {}
  /\ part = "dispatch" \/ bannedWords = {}
  /\ LifecycleInit
  /\ part = "lifecycle" \/ kind = [p \in Project |-> "slack"]
  /\ UpgradeInit
  /\ SenderInit
  /\ part = "sender" \/ tokenFresh = TRUE

\* Bound of the conversations: two chats share one, or one chat has two.
FewConversations ==
  opened' + Cardinality({k \in Key :
                           \/ current'[k] # NoConv \/ author'[k] # NoConv
                           \/ order'[k].op # "none"}) <= 3

\* Bound of the gateway: it sends of its own accord before the last connection is opened.
FewNotices == notices' # notices => link'[MaxConn] = "none"

\* Bounds of the turns: only the last poll of the first one fails, and then no more than
\* one line is written in all; and no more than that when the session is closed in a
\* later turn than the first.
FewLines ==
  /\ PollFails => watcher.exit /\ turns = 1
  /\ missed' => lines'["own"] <= 1
  /\ closer' # "no" /\ turns' > 1 => lines'["own"] <= 1

\* Bound of the upgrades: a behaviour ends when two replacements have
\* crossed, after which UpgradeIsKept says nothing.
NoneCrossed == ~upgradeCrossed

\* Bounds of a message on its way: the configuration that a reload reads holds a command,
\* an alias or neither, and an answer, which has no state in common with the tables, goes
\* out while they are empty and unchanged. A message that meets a reload has no image and
\* no permission waits for it: neither looks at the tables.
FewReloaded ==
  /\ reload' # "none" => ~message'.image /\ ~pending'
  /\ answer' # <<>> => bannedWords' \union disabledCmds' = {} /\ changes' = 0
  /\ reload' = "commands" => Cardinality(registered') <= 1
  /\ reload' \in {"aliases", "disabled"} =>
       /\ Cardinality(registered') + Cardinality(DOMAIN aliases') <= 1
       /\ \A a \in DOMAIN aliases' : aliases'[a].words = <<"up">>

Next ==
  /\ UNCHANGED part
  /\ \/ /\ part = "cron"
        /\ CronNext
        /\ UNCHANGED <<gatewayVars, onebotVars, relayVars, iflowVars, settingsVars,
                       conversationVars, dispatchVars, lifecycleVars, upgradeVars,
                       senderVars>>
     \/ /\ part = "gateway"
        /\ GatewayNext /\ FewNotices
        /\ UNCHANGED <<cronVars, onebotVars, relayVars, iflowVars, settingsVars,
                       conversationVars, dispatchVars, lifecycleVars, upgradeVars,
                       senderVars>>
     \/ /\ part = "onebot"
        /\ OneBotNext
        /\ UNCHANGED <<cronVars, gatewayVars, relayVars, iflowVars, settingsVars,
                       conversationVars, dispatchVars, lifecycleVars, upgradeVars,
                       senderVars>>
     \/ /\ part = "relay"
        /\ RelayNext
        /\ UNCHANGED <<cronVars, gatewayVars, onebotVars, iflowVars, settingsVars,
                       conversationVars, dispatchVars, lifecycleVars, upgradeVars,
                       senderVars>>
     \/ /\ part = "iflow"
        /\ IFlowNext /\ FewLines
        /\ UNCHANGED <<cronVars, gatewayVars, onebotVars, relayVars, settingsVars,
                       conversationVars, dispatchVars, lifecycleVars, upgradeVars,
                       senderVars>>
     \/ /\ part = "settings"
        /\ SettingsNext
        /\ UNCHANGED <<cronVars, gatewayVars, onebotVars, relayVars, iflowVars,
                       conversationVars, dispatchVars, lifecycleVars, upgradeVars,
                       senderVars>>
     \/ /\ part = "conversations"
        /\ ConversationNext /\ FewConversations
        /\ UNCHANGED <<cronVars, gatewayVars, onebotVars, relayVars, iflowVars,
                       settingsVars, dispatchVars, lifecycleVars, upgradeVars, senderVars>>
     \/ /\ part = "dispatch"
        /\ DispatchNext /\ FewReloaded
        /\ UNCHANGED <<cronVars, gatewayVars, onebotVars, relayVars, iflowVars,
                       settingsVars, conversationVars, lifecycleVars, upgradeVars,
                       senderVars>>
     \/ /\ part = "lifecycle"
        /\ LifecycleNext
        /\ UNCHANGED <<cronVars, gatewayVars, onebotVars, relayVars, iflowVars,
                       settingsVars, conversationVars, dispatchVars, upgradeVars,
                       senderVars>>
     \/ /\ part = "upgrade"
        /\ UpgradeNext /\ NoneCrossed
        /\ UNCHANGED <<cronVars, gatewayVars, onebotVars, relayVars, iflowVars,
                       settingsVars, conversationVars, dispatchVars, lifecycleVars,
                       senderVars>>
     \/ /\ part = "sender"
        /\ SenderNext
        /\ UNCHANGED <<cronVars, gatewayVars, onebotVars, relayVars, iflowVars,
                       settingsVars, conversationVars, dispatchVars, lifecycleVars,
                       upgradeVars>>

Spec == Init /\ [][Next]_edgesVars

\* Jobs, bots, tools, providers and keys are interchangeable, and so are callers,
\* requests and handlers. Used for safety properties only.
Symmetry == Permutations(Job) \union Permutations(Admin)

-----------------------------------------------------------------------------
\* The state of each part (cron.go, qqbot.go, qq.go, relay.go, iflow/session.go,
\* config.go, engine.go, main.go and updater.go) stays well formed.
EdgesTypeOK ==
  CASE part = "cron" -> CronTypeOK
    [] part = "gateway" -> GatewayTypeOK
    [] part = "onebot" -> OneBotTypeOK
    [] part = "relay" -> RelayTypeOK
    [] part = "iflow" -> IFlowTypeOK
    [] part = "settings" -> SettingsTypeOK
    [] part = "conversations" -> ConversationTypeOK
    [] part = "dispatch" -> DispatchTypeOK
    [] part = "lifecycle" -> LifecycleTypeOK
    [] part = "upgrade" -> UpgradeTypeOK
    [] part = "sender" -> SenderTypeOK
=============================================================================
