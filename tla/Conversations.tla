--------------------------- MODULE Conversations ---------------------------
(***************************************************************************)
(* The commands about the conversations of an agent: /list, /switch, /name,*)
(* /delete, /search and /new (core/engine.go), against the files in which  *)
(* the agents keep them and the turns that write there. Every command asks *)
(* the agent for its list anew; a number is a place in that list, which    *)
(* the newest conversation leads. Listing the conversations of Codex       *)
(* rewrites the first line of each file that says "exec": the file is read *)
(* and written back as a whole (agent/codex/list.go).                      *)
(***************************************************************************)
EXTENDS SeqFilter, FiniteSets, SequencesExt

CONSTANTS
  Key,       \* session keys, each a chat that sends one command at a time
  MaxConv,   \* bound on the conversations
  MaxText,   \* bound on the lines of one
  MaxOrder,  \* bound on the commands
  NoConv

ASSUME ConversationAssumption ==
  MaxConv \in Nat /\ MaxText \in Nat /\ MaxOrder \in Nat /\ NoConv \notin 1..MaxConv

VARIABLES
  agent,   \* the agent of the project
  text,    \* lines of each conversation's file
  recent,  \* the conversations that have a file, the one changed last first
  exec,    \* files whose first line says "source":"exec"
  opened,  \* conversations so far
  current, \* AgentSessionID of each key's active session
  author,  \* the conversation that each key's turn writes
  named,   \* conversations with a custom name
  order,   \* each key's command: where it is, its number, its list, what it copies
  orders,  \* commands so far
  overrun  \* keys whose command copied a file that was written to since

conversationVars == <<agent, text, recent, exec, opened, current, author, named, order,
                      orders, overrun>>

Conv == 1..MaxConv
\* cursor, gemini and iflow list and delete as claudecode does.
Agent == {"claudecode", "codex", "opencode", "qoder"}
Command == {"list", "search", "switch", "delete", "name"}
NoOrder == [op |-> "none", number |-> 0, list |-> <<>>, conv |-> NoConv, copy |-> 0]

ConversationTypeOK ==
  /\ agent \in Agent
  /\ text \in [Conv -> 0..MaxText]
  /\ recent \in Seq(Conv) /\ IsInjective(recent)
  /\ exec \subseteq ToSet(recent)
  /\ opened \in 0..MaxConv
  /\ current \in [Key -> Conv \union {NoConv}]
  /\ author \in [Key -> Conv \union {NoConv}]
  /\ named \subseteq Conv
  /\ order \in [Key -> [op : Command \union {"none", "remove"}, number : 0..MaxConv,
                       list : Seq(Conv), conv : Conv \union {NoConv}, copy : 0..MaxText]]
  /\ orders \in 0..MaxOrder
  /\ overrun \subseteq Key

ConversationInit ==
  /\ agent \in Agent
  /\ text = [c \in Conv |-> 0] /\ recent = <<>> /\ exec = {} /\ opened = 0
  /\ current = [k \in Key |-> NoConv] /\ author = [k \in Key |-> NoConv]
  /\ named = {}
  /\ order = [k \in Key |-> NoOrder]
  /\ orders = 0 /\ overrun = {}

-----------------------------------------------------------------------------
(* The files.                                                              *)

\* A file that was changed leads the list.
Touched(c) == <<c>> \o Filtered(recent, Conv \ {c})

\* ListSessions: newest first, by the time of the file or the last time in it.
\* opencode lists what its command line prints, qoder nothing.
ListSessions(list) ==
  CASE agent = "qoder" -> list = <<>>
    [] agent = "opencode" -> ToSet(list) = ToSet(recent) /\ Len(list) = Len(recent)
    [] OTHER -> list = recent

\* DeleteSession and the removal of the name, or an error; opencode and qoder
\* cannot delete.
DeleteSession(c) ==
  \/ /\ agent \in {"claudecode", "codex"} /\ c \in ToSet(recent)
     /\ recent' = Filtered(recent, Conv \ {c})
     /\ text' = [text EXCEPT ![c] = 0]
     /\ exec' = exec \ {c}
     /\ named' = named \ {c}
  \/ UNCHANGED <<recent, text, exec, named>>

\* The keys whose command copies the file of c.
Patches(c) == {k \in Key : order[k].op \in Command /\ order[k].conv = c}
Overrun(c) == overrun' = overrun \union Patches(c)

\* A turn opens its conversation, or a new one when its session has none; one whose
\* file was removed cannot be resumed.
OpenConversation(k) ==
  LET c == IF current[k] = NoConv THEN opened + 1 ELSE current[k] IN
  /\ author[k] = NoConv
  /\ c <= MaxConv /\ text[c] < MaxText
  /\ c > opened \/ c \in ToSet(recent)
  /\ opened' = IF c > opened THEN c ELSE opened
  /\ author' = [author EXCEPT ![k] = c]
  /\ text' = [text EXCEPT ![c] = @ + 1]
  /\ recent' = Touched(c)
  /\ exec' = IF agent = "codex" /\ text[c] = 0 THEN exec \union {c} ELSE exec
  /\ Overrun(c)
  /\ UNCHANGED <<agent, current, named, order, orders>>

\* The process writes; what it writes to a file that was removed is lost.
WriteConversation(k) ==
  LET c == author[k] IN
  /\ c # NoConv /\ c \in ToSet(recent)
  /\ text[c] < MaxText
  /\ text' = [text EXCEPT ![c] = @ + 1]
  /\ recent' = Touched(c)
  /\ Overrun(c)
  /\ UNCHANGED <<agent, exec, opened, current, author, named, order, orders>>

\* The result names the conversation, and the turn ends; Codex then patches it,
\* which changes the time of its file.
TurnEnds(k) ==
  LET c == author[k] IN
  /\ c # NoConv
  /\ current' = [current EXCEPT ![k] = c]
  /\ author' = [author EXCEPT ![k] = NoConv]
  /\ exec' = exec \ {c}
  /\ recent' = IF c \in exec THEN Touched(c) ELSE recent
  /\ UNCHANGED <<agent, text, opened, named, order, orders, overrun>>

-----------------------------------------------------------------------------
(* The commands.                                                           *)

\* A command, with a number or with something else (0), asks for the list. Codex
\* then goes through the files of its list.
BeginCommand(k, op, n) ==
  /\ order[k].op = "none" /\ orders < MaxOrder
  /\ op \in {"list", "search"} => n = 0
  /\ op = "name" => n # 0
  /\ orders' = orders + 1
  /\ \E list \in {recent, Reverse(recent), <<>>} :
       /\ ListSessions(list)
       /\ order' = [order EXCEPT ![k] = [NoOrder EXCEPT !.op = op, !.number = n,
                                                          !.list = list]]
  /\ UNCHANGED <<agent, text, recent, exec, opened, current, author, named, overrun>>

\* patchSessionSource reads a file that says "exec" ...
ReadPatch(k, c) ==
  /\ agent = "codex"
  /\ order[k].op \in Command /\ order[k].conv = NoConv
  /\ c \in exec \intersect ToSet(order[k].list)
  /\ order' = [order EXCEPT ![k].conv = c, ![k].copy = text[c]]
  /\ overrun' = overrun \ {k}
  /\ UNCHANGED <<agent, text, recent, exec, opened, current, author, named, orders>>

\* Mutant of WritePatch: only the line that was patched is written back.
WritePatchFirstLine(k) ==
  LET c == order[k].conv IN
  /\ order[k].op \in Command /\ c # NoConv
  /\ text' = [text EXCEPT ![c] = 1]
  /\ recent' = Touched(c)
  /\ exec' = exec \ {c}
  /\ order' = [order EXCEPT ![k].conv = NoConv, ![k].copy = 0]
  /\ UNCHANGED <<agent, opened, current, author, named, orders, overrun>>

\* ... and writes it back as it was, whatever happened to it meanwhile.
WritePatch(k) ==
  LET c == order[k].conv IN
  /\ order[k].op \in Command /\ c # NoConv
  /\ text' = [text EXCEPT ![c] = order[k].copy]
  /\ recent' = Touched(c)
  /\ exec' = exec \ {c}
  /\ order' = [order EXCEPT ![k].conv = NoConv, ![k].copy = 0]
  /\ UNCHANGED <<agent, opened, current, author, named, orders, overrun>>

\* The list is complete.
Listed(k, op) ==
  /\ order[k].op = op /\ order[k].conv = NoConv
  /\ agent = "codex" => exec \intersect ToSet(order[k].list) = {}

Done(k) == order' = [order EXCEPT ![k] = NoOrder]

\* /list shows the numbers, for a later command to use; /search numbers what it found
\* on its own.
CmdList(k) ==
  /\ Listed(k, "list")
  /\ Done(k)
  /\ UNCHANGED <<agent, text, recent, exec, opened, current, author, named, orders,
                 overrun>>

CmdSearch(k) ==
  /\ Listed(k, "search")
  /\ Done(k)
  /\ UNCHANGED <<agent, text, recent, exec, opened, current, author, named, orders,
                 overrun>>

\* matchSession: the n-th of the list that was just made; a name or the beginning of
\* an id may mean any of them.
MatchSession(k, c) ==
  LET n == order[k].number
      list == order[k].list IN
  IF n \in DOMAIN list THEN c = list[n] ELSE n = 0 /\ c \in ToSet(list)

\* /switch ends the turn of the key, then binds its session.
CmdSwitch(k, c) ==
  /\ Listed(k, "switch")
  /\ MatchSession(k, c)
  /\ current' = [current EXCEPT ![k] = c]
  /\ author' = [author EXCEPT ![k] = NoConv]
  /\ Done(k)
  /\ UNCHANGED <<agent, text, recent, exec, opened, named, orders, overrun>>

\* /name of a number, or of the conversation the session has.
CmdName(k, c) ==
  /\ Listed(k, "name")
  /\ MatchSession(k, c)
  /\ named' = named \union {c}
  /\ Done(k)
  /\ UNCHANGED <<agent, text, recent, exec, opened, current, author, orders, overrun>>

CmdNameCurrent(k) ==
  /\ order[k].op = "none" /\ orders < MaxOrder
  /\ orders' = orders + 1
  /\ current[k] # NoConv
  /\ named' = named \union {current[k]}
  /\ UNCHANGED <<agent, text, recent, exec, opened, current, author, order, overrun>>

\* /delete refuses the conversation of the key's own session ...
CmdDelete(k, c) ==
  /\ Listed(k, "delete")
  /\ MatchSession(k, c)
  /\ order' = [order EXCEPT ![k] = IF c = current[k] THEN NoOrder
                                     ELSE [@ EXCEPT !.op = "remove", !.conv = c]]
  /\ UNCHANGED <<agent, text, recent, exec, opened, current, author, named, orders,
                 overrun>>

\* ... and removes any other, with its name.
RemoveConversation(k) ==
  /\ order[k].op = "remove"
  /\ DeleteSession(order[k].conv)
  /\ Done(k)
  /\ UNCHANGED <<agent, opened, current, author, orders, overrun>>

\* Nothing matches.
NoMatch(k) ==
  /\ \E op \in {"switch", "name", "delete"} : Listed(k, op)
  /\ order[k].number = 0 \/ order[k].number \notin DOMAIN order[k].list
  /\ Done(k)
  /\ UNCHANGED <<agent, text, recent, exec, opened, current, author, named, orders,
                 overrun>>

\* /new ends the turn of the key and gives it a session without a conversation.
CmdNew(k) ==
  /\ order[k].op = "none" /\ orders < MaxOrder
  /\ orders' = orders + 1
  /\ current' = [current EXCEPT ![k] = NoConv]
  /\ author' = [author EXCEPT ![k] = NoConv]
  /\ UNCHANGED <<agent, text, recent, exec, opened, named, order, overrun>>

ConversationNext ==
  \E k \in Key :
    \/ OpenConversation(k) \/ WriteConversation(k) \/ TurnEnds(k)
    \/ \E op \in Command, n \in 0..MaxConv : BeginCommand(k, op, n)
    \/ WritePatch(k)
    \/ CmdList(k) \/ CmdSearch(k) \/ CmdNameCurrent(k) \/ RemoveConversation(k) \/ NoMatch(k)
    \/ CmdNew(k)
    \/ \E c \in Conv : ReadPatch(k, c) \/ CmdSwitch(k, c) \/ CmdName(k, c) \/ CmdDelete(k, c)

ConversationSpec == ConversationInit /\ [][ConversationNext]_conversationVars

-----------------------------------------------------------------------------
(* What the commands promise.                                              *)

\* A file loses nothing, and one that was removed does not come back, unless Codex
\* patched it while a process wrote to it or while another command removed it:
\* patchSessionSource writes back what it had read.
FilesAreKept ==
  [][\A c \in Conv :
       /\ text'[c] < text[c] => c \notin ToSet(recent') \/ Patches(c) \intersect overrun # {}
       /\ c \in ToSet(recent') \ ToSet(recent) => c > opened \/ Patches(c) # {}]_conversationVars
=============================================================================
