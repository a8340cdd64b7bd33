--------------------------- MODULE CommandProofs ---------------------------
(***************************************************************************)
(* Proofs about the commands that change what the program keeps, the       *)
(* conversations of the agents and the settings, about the way of a        *)
(* message to them, and about the pieces of an answer.                     *)
(***************************************************************************)
EXTENDS Conversations, Dispatch, Settings, SeqItems, FiniteSetTheorems

-----------------------------------------------------------------------------
(* Conversations: the list of the files.                                   *)

Order == [op : Command \union {"none", "remove"}, number : 0..MaxConv, list : Seq(Conv),
          conv : Conv \union {NoConv}, copy : 0..MaxText]

LEMMA NoOrderType == NoOrder \in Order
<1>1. <<>> \in Seq(Conv)
  BY EmptySeq
<1>. QED BY <1>1, ConversationAssumption DEF NoOrder, Order

\* What is left of a list: DeleteSession ...
LEMMA FilteredList ==
  ASSUME NEW T, NEW s \in Seq(T), NEW S
  PROVE  /\ Filtered(s, S) \in Seq(T)
         /\ IsInjective(s) => IsInjective(Filtered(s, S))
         /\ ToSet(Filtered(s, S)) = ToSet(s) \intersect S
         /\ ToSet(s) \subseteq T
<1>. DEFINE t == Filtered(s, S)
<1>1. t \in Seq(T) /\ Keeps(t, s, S) /\ (IsInjective(s) => IsInjective(t))
  BY FilteredItems, FilteredOnce
<1>. HIDE DEF t
<1>2. \A i \in DOMAIN s : s[i] \in T
  BY LenProperties
<1>3. ToSet(t) = ToSet(s) \intersect S
  BY <1>1 DEF Keeps, ToSet
<1>. QED BY <1>1, <1>2, <1>3 DEF t, ToSet

\* ... and the list after a file was changed.
LEMMA TouchedList ==
  ASSUME recent \in Seq(Conv), IsInjective(recent), NEW c \in Conv
  PROVE  /\ Touched(c) \in Seq(Conv) /\ IsInjective(Touched(c))
         /\ ToSet(Touched(c)) = ToSet(recent) \union {c}
<1>. DEFINE t == Filtered(recent, Conv \ {c})
            u == <<c>> \o t
<1>1. t \in Seq(Conv) /\ IsInjective(t) /\ ToSet(t) = ToSet(recent) \ {c}
  BY FilteredList
<1>. HIDE DEF t
<1>2. <<c>> \in Seq(Conv) /\ Len(<<c>>) = 1 /\ <<c>>[1] = c
  OBVIOUS
<1>3. /\ u \in Seq(Conv) /\ Len(t) \in Nat /\ DOMAIN t = 1..Len(t) /\ DOMAIN u = 1..(Len(t) + 1)
      /\ u[1] = c /\ \A i \in 2..(Len(t) + 1) : u[i] = t[i - 1]
  BY <1>1, <1>2, ConcatProperties, LenProperties
<1>. HIDE DEF u
<1>4. \A i \in DOMAIN t : t[i] # c
  BY <1>1 DEF ToSet
<1>5. IsInjective(u)
  <2>1. \A i, j \in DOMAIN t : t[i] = t[j] => i = j
    BY <1>1 DEF IsInjective
  <2>2. ASSUME NEW i \in DOMAIN u, NEW j \in DOMAIN u, u[i] = u[j] PROVE i = j
    <3>1. /\ (i = 1 /\ u[i] = c) \/ (i - 1 \in DOMAIN t /\ u[i] = t[i - 1])
          /\ (j = 1 /\ u[j] = c) \/ (j - 1 \in DOMAIN t /\ u[j] = t[j - 1])
          /\ i \in Int /\ j \in Int
      BY <1>3, <2>2
    <3>. QED BY <1>4, <2>1, <2>2, <3>1
  <2>. QED BY <2>2 DEF IsInjective
<1>6. ToSet(u) = ToSet(t) \union {c}
  <2>1. \A i \in DOMAIN t : i + 1 \in DOMAIN u /\ u[i + 1] = t[i]
    BY <1>3
  <2>2. \A i \in DOMAIN u : i = 1 \/ (i - 1 \in DOMAIN t /\ u[i] = t[i - 1])
    BY <1>3
  <2>. QED BY <1>3, <2>1, <2>2 DEF ToSet
<1>. QED BY <1>1, <1>3, <1>5, <1>6 DEF Touched, u, t

-----------------------------------------------------------------------------
(* Conversations: what a patch writes back. A copy that no one wrote past  *)
(* is at least as long as the file. That alone is not inductive: another   *)
(* command may write a longer copy back. So no copy is longer than one     *)
(* that is fresh, and while the file still says "exec", when it can be     *)
(* copied, none is longer than the file.                                   *)

CopyOK(c, k) ==
  /\ c <= opened
  /\ order[k].copy \in 1..MaxText
  /\ k \notin overrun => /\ text[c] <= order[k].copy
                         /\ \A j \in Patches(c) : order[j].copy <= order[k].copy
  /\ c \in exec => order[k].copy <= text[c]
CopiesOK == \A c \in Conv : \A k \in Patches(c) : CopyOK(c, k)

\* A file that is listed has lines.
FilesOK == \A c \in ToSet(recent) : c <= opened /\ text[c] \in 1..MaxText

ConversationInv == ConversationTypeOK /\ CopiesOK /\ FilesOK

\* FilesAreKept of one step.
FilesKept ==
  \A c \in Conv :
    /\ text'[c] < text[c] => c \notin ToSet(recent') \/ Patches(c) \intersect overrun # {}
    /\ c \in ToSet(recent') \ ToSet(recent) => c > opened \/ Patches(c) # {}

LEMMA InitConversation == ConversationInit => ConversationInv
<1>. SUFFICES ASSUME ConversationInit PROVE ConversationInv
  OBVIOUS
<1>1. <<>> \in Seq(Conv) /\ DOMAIN <<>> = {}
  BY EmptySeq
<1>2. IsInjective(<<>>) /\ ToSet(<<>>) = {}
  BY <1>1, Zenon DEF IsInjective, ToSet
<1>3. order \in [Key -> Order]
  BY NoOrderType, Zenon DEF ConversationInit
<1>4. ConversationTypeOK
  BY <1>1, <1>2, <1>3, ConversationAssumption
  DEF ConversationInit, ConversationTypeOK, Conv, Order
<1>5. \A c \in Conv : Patches(c) = {}
  BY DEF ConversationInit, Patches, NoOrder, Command
<1>6. ToSet(recent) = {}
  BY <1>2 DEF ConversationInit
<1>. QED BY <1>4, <1>5, <1>6 DEF ConversationInv, CopiesOK, FilesOK

\* The copies there were are still there or were written back.
LEMMA CopiesStay ==
  ASSUME ConversationInv, opened' \in Nat, opened <= opened',
         \A c \in Conv, k \in Key : k \in Patches(c)' =>
           /\ k \in Patches(c) /\ order'[k] = order[k]
           /\ k \notin overrun' => k \notin overrun /\ text'[c] <= order[k].copy
           /\ c \in exec' => order[k].copy <= text'[c]
  PROVE  CopiesOK'
<1>. SUFFICES ASSUME NEW c \in Conv, NEW k \in Patches(c)' PROVE CopyOK(c, k)'
  BY DEF CopiesOK
<1>1. k \in Key /\ Patches(c)' \subseteq Key
  BY DEF Patches
<1>2. k \in Patches(c) /\ order'[k] = order[k] /\ \A j \in Patches(c)' : j \in Patches(c) /\ order'[j] = order[j]
  BY <1>1
<1>3. CopyOK(c, k)
  BY <1>2 DEF ConversationInv, CopiesOK
<1>4. c <= opened'
  <2>1. c \in Int /\ opened \in Int /\ c <= opened
    BY <1>3 DEF ConversationInv, ConversationTypeOK, CopyOK, Conv
  <2>. QED BY <2>1
<1>5. k \notin overrun' => /\ text'[c] <= order'[k].copy
                           /\ \A j \in Patches(c)' : order'[j].copy <= order'[k].copy
  BY <1>1, <1>2, <1>3 DEF CopyOK
<1>6. c \in exec' => order'[k].copy <= text'[c]
  BY <1>1, <1>2
<1>7. order'[k].copy \in 1..MaxText
  BY <1>2, <1>3 DEF CopyOK
<1>. QED BY <1>4, <1>5, <1>6, <1>7 DEF CopyOK

\* A step that leaves the files alone.
StillFiles == UNCHANGED <<agent, text, recent, exec, opened>>

LEMMA StillFilesKept ==
  ASSUME ConversationInv, StillFiles
  PROVE  FilesKept /\ FilesOK'
BY DEF ConversationInv, ConversationTypeOK, StillFiles, FilesKept, FilesOK

\* The order of one key becomes x.
LEMMA OrderChanged ==
  ASSUME order \in [Key -> Order], NEW k \in Key, NEW x \in Order,
         order' = [order EXCEPT ![k] = x]
  PROVE  /\ order' \in [Key -> Order]
         /\ \A j \in Key : order'[j] = IF j = k THEN x ELSE order[j]
OBVIOUS

\* A step that only changes orders, names and bindings, and takes no copy.
LEMMA CalmStep ==
  ASSUME ConversationInv, StillFiles, UNCHANGED overrun,
         current' \in [Key -> Conv \union {NoConv}], author' \in [Key -> Conv \union {NoConv}],
         named' \subseteq Conv, orders' \in 0..MaxOrder, order' \in [Key -> Order],
         \A k \in Key : \/ order'[k] = order[k]
                        \/ order'[k].op \notin Command
                        \/ order'[k].conv = NoConv
  PROVE  ConversationInv' /\ FilesKept
<1>1. FilesKept /\ FilesOK'
  BY StillFilesKept
<1>2. ConversationTypeOK'
  BY DEF ConversationInv, ConversationTypeOK, StillFiles, Order, Conv
<1>3. CopiesOK'
  <2>1. ASSUME NEW c \in Conv, NEW k \in Key, k \in Patches(c)'
        PROVE  /\ k \in Patches(c) /\ order'[k] = order[k]
               /\ k \notin overrun' => k \notin overrun /\ text'[c] <= order[k].copy
               /\ c \in exec' => order[k].copy <= text'[c]
    <3>1. order'[k].op \in Command /\ order'[k].conv # NoConv /\ order'[k].conv = c
      BY <2>1, ConversationAssumption DEF Patches, Conv
    <3>2. order'[k] = order[k] /\ k \in Patches(c)
      BY <3>1 DEF Patches
    <3>. QED BY <3>2 DEF ConversationInv, CopiesOK, CopyOK, StillFiles
  <2>2. opened' \in Nat /\ opened <= opened'
    BY DEF ConversationInv, ConversationTypeOK, StillFiles
  <2>. QED BY <2>1, <2>2, CopiesStay
<1>. QED BY <1>1, <1>2, <1>3 DEF ConversationInv

\* A command begins ...
LEMMA BeginCommandKept ==
  ASSUME ConversationInv, NEW k \in Key, NEW op \in Command, NEW n \in 0..MaxConv,
         BeginCommand(k, op, n)
  PROVE  ConversationInv' /\ FilesKept
<1>. USE DEF ConversationInv, ConversationTypeOK
<1>1. PICK list \in {recent, Reverse(recent), <<>>} :
        order' = [order EXCEPT ![k] = [NoOrder EXCEPT !.op = op, !.number = n, !.list = list]]
  BY Zenon DEF BeginCommand
<1>. DEFINE x == [NoOrder EXCEPT !.op = op, !.number = n, !.list = list]
<1>2. list \in Seq(Conv)
  <2>1. Len(recent) \in Nat /\ \A i \in 1..Len(recent) : recent[Len(recent) - i + 1] \in Conv
    BY LenProperties
  <2>2. Reverse(recent) \in [1..Len(recent) -> Conv]
    BY <2>1 DEF Reverse
  <2>3. Reverse(recent) \in Seq(Conv)
    BY <2>1, <2>2, FunctionIsSeq
  <2>. QED BY <2>3, EmptySeq
<1>3. x \in Order /\ x.conv = NoConv
  BY <1>2, NoOrderType DEF Order, NoOrder
<1>. HIDE DEF x
<1>4. order \in [Key -> Order]
  BY Zenon DEF Order
<1>5. /\ order' \in [Key -> Order]
      /\ \A j \in Key : order'[j] = IF j = k THEN x ELSE order[j]
  BY <1>1, <1>3, <1>4, OrderChanged, Zenon DEF x
<1>6. orders' \in 0..MaxOrder
  BY ConversationAssumption DEF BeginCommand
<1>7. UNCHANGED <<agent, text, recent, exec, opened, current, author, named, overrun>>
  BY DEF BeginCommand
<1>. QED BY <1>3, <1>5, <1>6, <1>7, CalmStep DEF StillFiles

\* ... and is done.
LEMMA DoneKept ==
  ASSUME ConversationInv, NEW k \in Key, Done(k), StillFiles, UNCHANGED <<overrun, orders>>,
         current' \in [Key -> Conv \union {NoConv}], author' \in [Key -> Conv \union {NoConv}],
         named' \subseteq Conv
  PROVE  ConversationInv' /\ FilesKept
<1>1. order \in [Key -> Order]
  BY DEF ConversationInv, ConversationTypeOK, Order
<1>2. /\ order' \in [Key -> Order]
      /\ \A j \in Key : order'[j] = IF j = k THEN NoOrder ELSE order[j]
  BY <1>1, NoOrderType, OrderChanged, Zenon DEF Done
<1>3. NoOrder.conv = NoConv
  BY DEF NoOrder
<1>4. orders' \in 0..MaxOrder
  BY DEF ConversationInv, ConversationTypeOK
<1>. QED BY <1>2, <1>3, <1>4, CalmStep

\* What a number or a name matches is a conversation.
LEMMA MatchIsConv ==
  ASSUME ConversationInv, NEW k \in Key, NEW c, MatchSession(k, c)
  PROVE  c \in Conv
<1>1. order[k].list \in Seq(Conv)
  BY DEF ConversationInv, ConversationTypeOK
<1>2. \A i \in DOMAIN order[k].list : order[k].list[i] \in Conv
  BY <1>1, LenProperties
<1>. QED BY <1>2 DEF MatchSession, ToSet

\* The commands that change nothing of the files.
LEMMA CalmCommandKept ==
  ASSUME ConversationInv, NEW k \in Key,
         \/ CmdList(k) \/ CmdSearch(k) \/ NoMatch(k)
         \/ \E c \in Conv : CmdSwitch(k, c) \/ CmdName(k, c)
  PROVE  ConversationInv' /\ FilesKept
<1>. USE DEF ConversationInv, ConversationTypeOK
<1>1. /\ Done(k) /\ UNCHANGED <<agent, text, recent, exec, opened, overrun, orders>>
      /\ \/ UNCHANGED <<current, author, named>>
         \/ \E c \in Conv : /\ current' = [current EXCEPT ![k] = c]
                            /\ author' = [author EXCEPT ![k] = NoConv]
                            /\ UNCHANGED named
         \/ \E c \in Conv : named' = named \union {c} /\ UNCHANGED <<current, author>>
  BY DEF CmdList, CmdSearch, NoMatch, CmdSwitch, CmdName
<1>2. /\ current' \in [Key -> Conv \union {NoConv}] /\ author' \in [Key -> Conv \union {NoConv}]
      /\ named' \subseteq Conv
  BY <1>1
<1>. QED BY <1>1, <1>2, DoneKept DEF StillFiles

LEMMA CmdNameCurrentKept ==
  ASSUME ConversationInv, NEW k \in Key, CmdNameCurrent(k) \/ CmdNew(k)
  PROVE  ConversationInv' /\ FilesKept
<1>. USE DEF ConversationInv, ConversationTypeOK
<1>1. UNCHANGED <<agent, text, recent, exec, opened, order, overrun>>
  BY DEF CmdNameCurrent, CmdNew
<1>2. /\ current' \in [Key -> Conv \union {NoConv}] /\ author' \in [Key -> Conv \union {NoConv}]
      /\ named' \subseteq Conv
  BY DEF CmdNameCurrent, CmdNew
<1>3. orders' \in 0..MaxOrder
  BY ConversationAssumption DEF CmdNameCurrent, CmdNew
<1>4. order' \in [Key -> Order] /\ \A j \in Key : order'[j] = order[j]
  BY <1>1 DEF Order
<1>. QED BY <1>1, <1>2, <1>3, <1>4, CalmStep DEF StillFiles

LEMMA CmdDeleteKept ==
  ASSUME ConversationInv, NEW k \in Key, NEW c \in Conv, CmdDelete(k, c)
  PROVE  ConversationInv' /\ FilesKept
<1>. USE DEF ConversationInv, ConversationTypeOK
<1>. DEFINE x == IF c = current[k] THEN NoOrder ELSE [order[k] EXCEPT !.op = "remove", !.conv = c]
<1>1. order \in [Key -> Order]
  BY Zenon DEF Order
<1>2. order' = [order EXCEPT ![k] = x]
  BY DEF CmdDelete
<1>3. [order[k] EXCEPT !.op = "remove", !.conv = c] \in Order
  BY <1>1 DEF Order
<1>4. x \in Order /\ (x.op \notin Command \/ x.conv = NoConv)
  BY <1>1, <1>3, NoOrderType DEF Order, Command, NoOrder
<1>. HIDE DEF x
<1>5. /\ order' \in [Key -> Order]
      /\ \A j \in Key : order'[j] = IF j = k THEN x ELSE order[j]
  BY <1>1, <1>2, <1>4, OrderChanged
<1>6. UNCHANGED <<agent, text, recent, exec, opened, current, author, named, orders, overrun>>
  BY DEF CmdDelete
<1>. QED BY <1>4, <1>5, <1>6, CalmStep DEF StillFiles

\* A copy is taken: of a file that still says "exec".
LEMMA ReadPatchKept ==
  ASSUME ConversationInv, NEW k \in Key, NEW c \in Conv, ReadPatch(k, c)
  PROVE  ConversationInv' /\ FilesKept
<1>. USE DEF ConversationInv, ConversationTypeOK
<1>. DEFINE x == [order[k] EXCEPT !.conv = c, !.copy = text[c]]
<1>1. order \in [Key -> Order]
  BY Zenon DEF Order
<1>2. order' = [order EXCEPT ![k] = x]
  BY DEF ReadPatch
<1>3. x \in Order /\ x.conv = c /\ x.copy = text[c]
  BY <1>1 DEF Order
<1>. HIDE DEF x
<1>4. /\ order' \in [Key -> Order]
      /\ \A j \in Key : order'[j] = IF j = k THEN x ELSE order[j]
  BY <1>1, <1>2, <1>3, OrderChanged
<1>5. /\ UNCHANGED <<agent, text, recent, exec, opened, current, author, named, orders>>
      /\ overrun' = overrun \ {k}
      /\ order[k].conv = NoConv /\ c \in exec
  BY DEF ReadPatch
<1>6. ConversationTypeOK'
  BY <1>4, <1>5 DEF Order, Conv
<1>7. c <= opened /\ text[c] \in 1..MaxText
  BY <1>5 DEF FilesOK
<1>8. CopiesOK'
  <2>1. \A d \in Conv, j \in Key : j # k =>
          (j \in Patches(d)' <=> j \in Patches(d)) /\ order'[j] = order[j]
    BY <1>4 DEF Patches
  <2>2. \A d \in Conv : k \in Patches(d)' => d = c
    BY <1>3, <1>4 DEF Patches
  <2>. SUFFICES ASSUME NEW d \in Conv, NEW j \in Patches(d)' PROVE CopyOK(d, j)'
    BY DEF CopiesOK
  <2>3. j \in Key /\ Patches(d)' \subseteq Key /\ Patches(d) \subseteq Key
    BY DEF Patches
  <2>4. \A i \in Patches(d) : CopyOK(d, i)
    BY DEF CopiesOK
  <2>5. CASE j = k
    <3>1. d = c /\ order'[k].copy = text[c]
      BY <1>3, <1>4, <2>2, <2>5
    <3>2. \A i \in Patches(c)' : order'[i].copy <= text[c]
      <4>. SUFFICES ASSUME NEW i \in Patches(c)' PROVE order'[i].copy <= text[c]
        OBVIOUS
      <4>1. CASE i = k
        BY <1>7, <3>1, <4>1
      <4>2. CASE i # k
        BY <1>5, <2>1, <2>3, <2>4, <3>1, <4>2 DEF CopyOK
      <4>. QED BY <4>1, <4>2
    <3>. QED BY <1>5, <1>7, <2>5, <3>1, <3>2 DEF CopyOK
  <2>6. CASE j # k
    <3>1. j \in Patches(d) /\ order'[j] = order[j]
      BY <2>1, <2>3, <2>6
    <3>2. CopyOK(d, j) /\ (j \in overrun <=> j \in overrun')
      BY <1>5, <2>4, <2>6, <3>1
    <3>3. j \notin overrun => \A i \in Patches(d)' : order'[i].copy <= order'[j].copy
      <4>. SUFFICES ASSUME j \notin overrun, NEW i \in Patches(d)'
                    PROVE  order'[i].copy <= order'[j].copy
        OBVIOUS
      <4>1. CASE i = k
        BY <1>3, <1>4, <2>2, <3>1, <3>2, <4>1 DEF CopyOK
      <4>2. CASE i # k
        BY <2>1, <2>3, <3>1, <3>2, <4>2 DEF CopyOK
      <4>. QED BY <4>1, <4>2
    <3>. QED BY <1>5, <3>1, <3>2, <3>3 DEF CopyOK
  <2>. QED BY <2>5, <2>6
<1>9. FilesKept /\ FilesOK'
  BY <1>5, StillFilesKept DEF StillFiles
<1>. QED BY <1>6, <1>8, <1>9

\* A process writes: the copies of the file are overrun.
LEMMA FileGrows ==
  ASSUME ConversationInv, NEW c \in Conv, text[c] < MaxText,
         text' = [text EXCEPT ![c] = @ + 1], recent' = Touched(c), Overrun(c),
         UNCHANGED <<agent, order>>, opened' \in Nat, opened <= opened', c <= opened',
         \A d \in exec' : d \in exec \/ Patches(d) = {}
  PROVE  /\ text' \in [Conv -> 0..MaxText]
         /\ recent' \in Seq(Conv) /\ IsInjective(recent') /\ ToSet(recent') = ToSet(recent) \union {c}
         /\ \A d \in Conv : text[d] <= text'[d]
         /\ overrun' \subseteq Key
         /\ CopiesOK' /\ FilesOK'
<1>. USE DEF ConversationInv, ConversationTypeOK
<1>1. /\ text' \in [Conv -> 0..MaxText] /\ text'[c] = text[c] + 1
      /\ \A d \in Conv : text'[d] = IF d = c THEN text[c] + 1 ELSE text[d]
      /\ \A d \in Conv : text[d] <= text'[d]
  BY ConversationAssumption
<1>2. recent' \in Seq(Conv) /\ IsInjective(recent') /\ ToSet(recent') = ToSet(recent) \union {c}
  BY TouchedList
<1>3. overrun' \subseteq Key
  BY DEF Overrun, Patches
<1>4. CopiesOK'
  <2>1. ASSUME NEW d \in Conv, NEW k \in Key, k \in Patches(d)'
        PROVE  /\ k \in Patches(d) /\ order'[k] = order[k]
               /\ k \notin overrun' => k \notin overrun /\ text'[d] <= order[k].copy
               /\ d \in exec' => order[k].copy <= text'[d]
    <3>1. k \in Patches(d) /\ order'[k] = order[k]
      BY <2>1 DEF Patches
    <3>2. CopyOK(d, k)
      BY <3>1 DEF CopiesOK
    <3>3. k \notin overrun' => k \notin overrun /\ d # c
      BY <3>1 DEF Overrun
    <3>4. d \in exec' => d \in exec
      BY <3>1
    <3>5. text[d] \in Int /\ order[k].copy \in Int
      BY <3>2, ConversationAssumption DEF CopyOK
    <3>. QED BY <1>1, <3>1, <3>2, <3>3, <3>4, <3>5 DEF CopyOK
  <2>. QED BY <2>1, CopiesStay
<1>5. FilesOK'
  <2>. SUFFICES ASSUME NEW d \in ToSet(recent) \union {c}
                PROVE  d <= opened' /\ text'[d] \in 1..MaxText
    BY <1>2 DEF FilesOK
  <2>1. CASE d = c
    BY <1>1, <2>1, ConversationAssumption
  <2>2. CASE d # c
    <3>1. d \in Conv
      BY <2>2, LenProperties DEF ToSet
    <3>2. d <= opened /\ text[d] \in 1..MaxText
      BY <2>2 DEF FilesOK
    <3>. QED BY <1>1, <2>2, <3>1, <3>2 DEF Conv
  <2>. QED BY <2>1, <2>2
<1>. QED BY <1>1, <1>2, <1>3, <1>4, <1>5

LEMMA OpenConversationKept ==
  ASSUME ConversationInv, NEW k \in Key, OpenConversation(k)
  PROVE  ConversationInv' /\ FilesKept
<1>. USE DEF ConversationInv, ConversationTypeOK
<1>. DEFINE c == IF current[k] = NoConv THEN opened + 1 ELSE current[k]
<1>1. /\ c <= MaxConv /\ text[c] < MaxText
      /\ c > opened \/ c \in ToSet(recent)
      /\ opened' = IF c > opened THEN c ELSE opened
      /\ author' = [author EXCEPT ![k] = c]
      /\ text' = [text EXCEPT ![c] = @ + 1]
      /\ recent' = Touched(c)
      /\ exec' = IF agent = "codex" /\ text[c] = 0 THEN exec \union {c} ELSE exec
      /\ Overrun(c)
      /\ UNCHANGED <<agent, current, named, order, orders>>
  BY DEF OpenConversation
<1>2. c \in Conv
  BY <1>1, ConversationAssumption DEF Conv
<1>. HIDE DEF c
<1>3. opened' \in 0..MaxConv /\ opened <= opened' /\ c <= opened' /\ author' \in [Key -> Conv \union {NoConv}]
  BY <1>1, <1>2, ConversationAssumption DEF Conv
<1>4. \A d \in exec' : d \in exec \/ Patches(d) = {}
  <2>. SUFFICES ASSUME text[c] = 0 PROVE Patches(c) = {}
    BY <1>1
  <2>1. c \notin ToSet(recent)
    BY DEF FilesOK
  <2>2. ~(c <= opened)
    BY <1>1, <1>2, <2>1 DEF Conv
  <2>. QED BY <1>2, <2>2 DEF CopiesOK, CopyOK
<1>5. /\ text' \in [Conv -> 0..MaxText]
      /\ recent' \in Seq(Conv) /\ IsInjective(recent') /\ ToSet(recent') = ToSet(recent) \union {c}
      /\ \A d \in Conv : text[d] <= text'[d]
      /\ overrun' \subseteq Key
      /\ CopiesOK' /\ FilesOK'
  <2>1. UNCHANGED <<agent, order>> /\ opened' \in Nat
    BY <1>1, <1>3
  <2>. HIDE DEF ConversationInv, ConversationTypeOK
  <2>. QED BY <1>1, <1>2, <1>3, <1>4, <2>1, FileGrows
<1>6. FilesKept
  BY <1>1, <1>5 DEF FilesKept
<1>7. exec' \subseteq ToSet(recent')
  BY <1>1, <1>5
<1>8. ConversationTypeOK'
  BY <1>1, <1>3, <1>5, <1>7 DEF Conv
<1>. QED BY <1>5, <1>6, <1>8

LEMMA WriteConversationKept ==
  ASSUME ConversationInv, NEW k \in Key, WriteConversation(k)
  PROVE  ConversationInv' /\ FilesKept
<1>. USE DEF ConversationInv, ConversationTypeOK
<1>. DEFINE c == author[k]
<1>1. /\ c \in Conv /\ c \in ToSet(recent) /\ text[c] < MaxText
      /\ text' = [text EXCEPT ![c] = @ + 1]
      /\ recent' = Touched(c)
      /\ Overrun(c)
      /\ UNCHANGED <<agent, exec, opened, current, author, named, order, orders>>
  BY DEF WriteConversation
<1>. HIDE DEF c
<1>2. opened' \in Nat /\ opened <= opened' /\ c <= opened'
  BY <1>1 DEF FilesOK
<1>3. /\ text' \in [Conv -> 0..MaxText]
      /\ recent' \in Seq(Conv) /\ IsInjective(recent') /\ ToSet(recent') = ToSet(recent) \union {c}
      /\ \A d \in Conv : text[d] <= text'[d]
      /\ overrun' \subseteq Key
      /\ CopiesOK' /\ FilesOK'
  BY <1>1, <1>2, FileGrows
<1>4. FilesKept
  BY <1>1, <1>3 DEF FilesKept
<1>5. ConversationTypeOK'
  BY <1>1, <1>3 DEF Conv
<1>. QED BY <1>3, <1>4, <1>5

LEMMA TurnEndsKept ==
  ASSUME ConversationInv, NEW k \in Key, TurnEnds(k)
  PROVE  ConversationInv' /\ FilesKept
<1>. USE DEF ConversationInv, ConversationTypeOK
<1>. DEFINE c == author[k]
<1>1. /\ c \in Conv
      /\ current' = [current EXCEPT ![k] = c]
      /\ author' = [author EXCEPT ![k] = NoConv]
      /\ exec' = exec \ {c}
      /\ recent' = IF c \in exec THEN Touched(c) ELSE recent
      /\ UNCHANGED <<agent, text, opened, named, order, orders, overrun>>
  BY DEF TurnEnds
<1>. HIDE DEF c
<1>2. recent' \in Seq(Conv) /\ IsInjective(recent') /\ ToSet(recent') = ToSet(recent)
  <2>1. CASE c \in exec
    <3>1. /\ Touched(c) \in Seq(Conv) /\ IsInjective(Touched(c))
          /\ ToSet(Touched(c)) = ToSet(recent) \union {c}
      BY <1>1, TouchedList
    <3>. QED BY <1>1, <2>1, <3>1
  <2>2. CASE c \notin exec
    BY <1>1, <2>2
  <2>. QED BY <2>1, <2>2
<1>3. FilesKept
  BY <1>1, <1>2 DEF FilesKept
<1>4. CopiesOK' /\ FilesOK'
  BY <1>1, <1>2 DEF CopiesOK, CopyOK, Patches, FilesOK
<1>5. ConversationTypeOK'
  BY <1>1, <1>2 DEF Conv
<1>. QED BY <1>3, <1>4, <1>5

\* The patch of a file.
LEMMA WritePatchKept ==
  ASSUME ConversationInv, NEW k \in Key, WritePatch(k)
  PROVE  ConversationInv' /\ FilesKept
<1>. USE DEF ConversationInv, ConversationTypeOK
<1>. DEFINE c == order[k].conv
            x == [order[k] EXCEPT !.conv = NoConv, !.copy = 0]
<1>1. /\ c \in Conv /\ order[k].op \in Command /\ c # NoConv
      /\ text' = [text EXCEPT ![c] = order[k].copy]
      /\ recent' = Touched(c)
      /\ exec' = exec \ {c}
      /\ order' = [order EXCEPT ![k] = x]
      /\ UNCHANGED <<agent, opened, current, author, named, orders, overrun>>
  BY DEF WritePatch
<1>2. order \in [Key -> Order] /\ 0 \in 0..MaxText
  <2>1. order \in [Key -> Order]
    BY Zenon DEF Order
  <2>. QED BY <2>1, ConversationAssumption
<1>3. x \in Order /\ x.conv = NoConv
  BY <1>2 DEF Order
<1>. HIDE DEF x
<1>4. /\ order' \in [Key -> Order]
      /\ \A j \in Key : order'[j] = IF j = k THEN x ELSE order[j]
  BY <1>1, <1>2, <1>3, OrderChanged
<1>5. recent' \in Seq(Conv) /\ IsInjective(recent') /\ ToSet(recent') = ToSet(recent) \union {c}
  BY <1>1, TouchedList
<1>6. k \in Patches(c) /\ CopyOK(c, k)
  BY <1>1 DEF Patches, CopiesOK
<1>7. /\ text' \in [Conv -> 0..MaxText] /\ text'[c] = order[k].copy
      /\ \A d \in Conv : d # c => text'[d] = text[d]
  BY <1>1
<1>8. text[c] \in Int /\ text'[c] \in 1..MaxText /\ (k \notin overrun => text[c] <= text'[c])
  BY <1>1, <1>6, <1>7, ConversationAssumption DEF CopyOK
<1>9. FilesKept
  <2>1. ASSUME NEW d \in Conv, text'[d] < text[d] PROVE Patches(d) \intersect overrun # {}
    <3>1. d = c
      BY <1>7, <2>1
    <3>2. k \in overrun
      BY <1>8, <2>1, <3>1
    <3>. QED BY <1>6, <3>1, <3>2
  <2>2. ASSUME NEW d \in Conv, d \in ToSet(recent') \ ToSet(recent) PROVE Patches(d) # {}
    BY <1>5, <1>6, <2>2
  <2>. QED BY <2>1, <2>2 DEF FilesKept
<1>10. CopiesOK'
  <2>1. ASSUME NEW d \in Conv, NEW j \in Key, j \in Patches(d)'
        PROVE  /\ j \in Patches(d) /\ order'[j] = order[j]
               /\ j \notin overrun' => j \notin overrun /\ text'[d] <= order[j].copy
               /\ d \in exec' => order[j].copy <= text'[d]
    <3>1. order'[j].conv = d /\ d # NoConv
      BY <2>1, ConversationAssumption DEF Patches, Conv
    <3>2. order'[j] = order[j] /\ j \in Patches(d)
      BY <1>3, <1>4, <2>1, <3>1 DEF Patches
    <3>3. CopyOK(d, j)
      BY <3>2 DEF CopiesOK
    <3>4. CASE d = c
      BY <1>1, <1>6, <1>7, <3>2, <3>3, <3>4 DEF CopyOK
    <3>5. CASE d # c
      BY <1>1, <1>7, <3>2, <3>3, <3>5 DEF CopyOK
    <3>. QED BY <3>4, <3>5
  <2>2. opened' \in Nat /\ opened <= opened'
    BY <1>1
  <2>. QED BY <2>1, <2>2, CopiesStay
<1>11. FilesOK'
  <2>. SUFFICES ASSUME NEW d \in ToSet(recent) \union {c}
                PROVE  d <= opened' /\ text'[d] \in 1..MaxText
    BY <1>5 DEF FilesOK
  <2>1. CASE d = c
    BY <1>1, <1>6, <1>8, <2>1 DEF CopyOK
  <2>2. CASE d # c
    <3>1. d \in Conv
      BY <2>2, LenProperties DEF ToSet
    <3>. QED BY <1>1, <1>7, <2>2, <3>1 DEF FilesOK
  <2>. QED BY <2>1, <2>2
<1>12. ConversationTypeOK'
  BY <1>1, <1>4, <1>5, <1>7 DEF Conv, Order
<1>. QED BY <1>9, <1>10, <1>11, <1>12

\* A conversation is removed, or not.
LEMMA RemoveConversationKept ==
  ASSUME ConversationInv, NEW k \in Key, RemoveConversation(k)
  PROVE  ConversationInv' /\ FilesKept
<1>. USE DEF ConversationInv, ConversationTypeOK
<1>. DEFINE c == order[k].conv
<1>1. Done(k) /\ DeleteSession(c) /\ UNCHANGED <<agent, opened, current, author, orders, overrun>>
  BY DEF RemoveConversation
<1>. HIDE DEF c
<1>2. CASE UNCHANGED <<recent, text, exec, named>>
  BY <1>1, <1>2, DoneKept DEF StillFiles
<1>3. CASE /\ c \in ToSet(recent)
           /\ recent' = Filtered(recent, Conv \ {c})
           /\ text' = [text EXCEPT ![c] = 0]
           /\ exec' = exec \ {c}
           /\ named' = named \ {c}
  <2>1. c \in Conv
    BY <1>3, LenProperties DEF ToSet
  <2>2. recent' \in Seq(Conv) /\ IsInjective(recent') /\ ToSet(recent') = ToSet(recent) \ {c}
    BY <1>3, FilteredList
  <2>3. /\ text' \in [Conv -> 0..MaxText] /\ text'[c] = 0
        /\ \A d \in Conv : d # c => text'[d] = text[d]
    BY <1>3, <2>1, ConversationAssumption
  <2>4. FilesKept
    BY <2>2, <2>3 DEF FilesKept
  <2>5. order \in [Key -> Order]
    BY Zenon DEF Order
  <2>6. /\ order' \in [Key -> Order]
        /\ \A j \in Key : order'[j] = IF j = k THEN NoOrder ELSE order[j]
    BY <1>1, <2>5, NoOrderType, OrderChanged, Zenon DEF Done
  <2>7. CopiesOK'
    <3>1. ASSUME NEW d \in Conv, NEW j \in Key, j \in Patches(d)'
          PROVE  /\ j \in Patches(d) /\ order'[j] = order[j]
                 /\ j \notin overrun' => j \notin overrun /\ text'[d] <= order[j].copy
                 /\ d \in exec' => order[j].copy <= text'[d]
      <4>1. order'[j].op \in Command
        BY <3>1 DEF Patches
      <4>2. order'[j] = order[j] /\ j \in Patches(d)
        BY <2>6, <3>1, <4>1 DEF Patches, NoOrder, Command
      <4>3. CopyOK(d, j)
        BY <4>2 DEF CopiesOK
      <4>4. CASE d = c
        BY <1>1, <1>3, <2>3, <4>2, <4>3, <4>4 DEF CopyOK
      <4>5. CASE d # c
        BY <1>1, <1>3, <2>3, <4>2, <4>3, <4>5 DEF CopyOK
      <4>. QED BY <4>4, <4>5
    <3>2. opened' \in Nat /\ opened <= opened'
      BY <1>1
    <3>. QED BY <3>1, <3>2, CopiesStay
  <2>8. FilesOK'
    <3>. SUFFICES ASSUME NEW d \in ToSet(recent) \ {c}
                  PROVE  d <= opened' /\ text'[d] \in 1..MaxText
      BY <2>2 DEF FilesOK
    <3>1. d \in Conv
      BY LenProperties DEF ToSet
    <3>. QED BY <1>1, <2>3, <3>1 DEF FilesOK
  <2>9. ConversationTypeOK'
    BY <1>1, <1>3, <2>2, <2>3, <2>6 DEF Conv, Order
  <2>. QED BY <2>4, <2>7, <2>8, <2>9
<1>. QED BY <1>1, <1>2, <1>3 DEF DeleteSession

LEMMA ConversationStep ==
  ASSUME ConversationInv, [ConversationNext]_conversationVars
  PROVE  ConversationInv' /\ (FilesKept \/ UNCHANGED conversationVars)
<1>1. CASE UNCHANGED conversationVars
  <2>1. UNCHANGED <<agent, text, recent, exec, opened, current, author, named, order, orders, overrun>>
    BY <1>1 DEF conversationVars
  <2>. QED BY <1>1, <2>1
       DEF ConversationInv, ConversationTypeOK, CopiesOK, CopyOK, FilesOK, Patches
<1>2. ASSUME NEW k \in Key,
             \/ OpenConversation(k) \/ WriteConversation(k) \/ TurnEnds(k)
             \/ \E op \in Command, n \in 0..MaxConv : BeginCommand(k, op, n)
             \/ WritePatch(k)
             \/ CmdNameCurrent(k) \/ RemoveConversation(k)
             \/ CmdNew(k)
             \/ \E c \in Conv : ReadPatch(k, c) \/ CmdDelete(k, c)
      PROVE  ConversationInv' /\ FilesKept
  BY <1>2, OpenConversationKept, WriteConversationKept, TurnEndsKept, BeginCommandKept,
     WritePatchKept, CmdNameCurrentKept, RemoveConversationKept, ReadPatchKept, CmdDeleteKept, Zenon
<1>3. ASSUME NEW k \in Key,
             \/ CmdList(k) \/ CmdSearch(k) \/ NoMatch(k)
             \/ \E c \in Conv : CmdSwitch(k, c) \/ CmdName(k, c)
      PROVE  ConversationInv' /\ FilesKept
  BY <1>3, CalmCommandKept, Zenon
<1>. QED BY <1>1, <1>2, <1>3, Zenon DEF ConversationNext

\* The state of the commands about conversations stays well formed (claudecode.go,
\* list.go of Codex and engine.go): no conversation is listed twice, none says "exec"
\* that is not listed.
THEOREM ConversationTypeCorrect == ConversationSpec => []ConversationTypeOK
<1>1. ConversationInit => ConversationInv
  BY InitConversation
<1>2. ConversationInv /\ [ConversationNext]_conversationVars => ConversationInv'
  BY ConversationStep
<1>3. ConversationInv => ConversationTypeOK
  BY DEF ConversationInv
<1>. QED BY <1>1, <1>2, <1>3, PTL DEF ConversationSpec

\* A file loses nothing and does not come back, but when Codex writes back a copy
\* that a process wrote past, or that a removal made obsolete: FilesAreKept for every
\* number of chats, conversations and lines.
THEOREM NoFileLosesLines == ConversationSpec => FilesAreKept
<1>1. ConversationInit => ConversationInv
  BY InitConversation
<1>2. ConversationInv /\ [ConversationNext]_conversationVars => ConversationInv'
  BY ConversationStep
<1>3. ConversationInv /\ [ConversationNext]_conversationVars => [FilesKept]_conversationVars
  BY ConversationStep
<1>. QED BY <1>1, <1>2, <1>3, PTL DEF ConversationSpec, FilesAreKept, FilesKept

-----------------------------------------------------------------------------
(* Dispatch: what a message that got past the filter is.                   *)

Clean == message.content.slash \/ ToSet(message.content.words) \intersect standing.banned = {}
InForce == [banned |-> bannedWords, disabled |-> disabledCmds]
StandingOK ==
  /\ standing.banned \subseteq bannedWords /\ standing.disabled \subseteq disabledCmds
  /\ standing = [banned |-> standing.banned, disabled |-> standing.disabled]
DispatchInv ==
  /\ StandingOK
  /\ dispatchPC \in {"command", "registry", "skill", "permission", "session"} => Clean
  /\ pending \in BOOLEAN /\ busy \in BOOLEAN
  /\ pending => busy

\* FiltersHold of one step.
Filtering ==
  outcome' # outcome =>
    /\ outcome'.kind = "builtin" => outcome'.id \notin standing.disabled
    /\ outcome'.kind = "turn" /\ ToSet(message.content.words) \intersect standing.banned # {} =>
         message.content.slash
    /\ outcome'.kind \in {"turn", "skill"} => ~pending

\* What stands for a message is in force.
LEMMA StandingStays ==
  ASSUME StandingOK, UNCHANGED Settled, standing' \in {standing, NoFilters, InForce}
  PROVE  StandingOK'
<1>1. UNCHANGED <<disabledCmds, bannedWords>>
  BY DEF Settled
<1>2. CASE standing' = standing
  BY <1>1, <1>2 DEF StandingOK
<1>3. CASE standing' = NoFilters
  BY <1>3 DEF StandingOK, NoFilters
<1>4. CASE standing' = InForce
  BY <1>1, <1>4 DEF StandingOK, InForce
<1>. QED BY <1>2, <1>3, <1>4

\* A step on which no turn and no command begins.
LEMMA PassingStep ==
  ASSUME DispatchInv, outcome'.kind \notin {"builtin", "turn", "skill"} \/ outcome' = outcome,
         UNCHANGED Settled, standing' \in {standing, NoFilters, InForce},
         \/ dispatchPC' \in {"idle", "alias", "filter"}
         \/ message' = message /\ standing' = standing /\ Clean,
         pending' \in BOOLEAN, busy' \in BOOLEAN, pending' => busy'
  PROVE  DispatchInv' /\ Filtering
<1>1. Filtering
  BY DEF Filtering
<1>2. StandingOK'
  BY StandingStays DEF DispatchInv
<1>3. DispatchInv'
  BY <1>2 DEF DispatchInv, Clean
<1>. QED BY <1>1, <1>3

\* The message has got its outcome.
LEMMA MessageEnds ==
  ASSUME NEW what, NEW which, Ends(what, which)
  PROVE  /\ dispatchPC' = "idle" /\ outcome'.kind = what /\ outcome'.id = which
         /\ standing' = NoFilters
BY DEF Ends

LEMMA DispatchStep ==
  ASSUME DispatchInv, [DispatchNext]_dispatchVars
  PROVE  DispatchInv' /\ (Filtering \/ UNCHANGED dispatchVars)
<1>. USE DEF Outside, Registries, Settled, Answering, OnTheWay
<1>0. /\ pending \in BOOLEAN /\ busy \in BOOLEAN /\ (pending => busy) /\ StandingOK
      /\ dispatchPC \in {"command", "registry", "skill", "permission", "session"} => Clean
  BY DEF DispatchInv
<1>1. CASE UNCHANGED dispatchVars
  BY <1>1, StandingStays DEF dispatchVars, DispatchInv, Clean
<1>2. ASSUME UNCHANGED <<dispatchPC, message, outcome, busy, pending>>,
             standing'.banned \subseteq standing.banned, StandingOK'
      PROVE  DispatchInv' /\ Filtering
  BY <1>2 DEF DispatchInv, Clean, Filtering
<1>3. CASE TurnGoesOn
  <2>1. UNCHANGED <<Settled, standing, dispatchPC, message, outcome>>
    BY <1>3 DEF TurnGoesOn
  <2>2. pending' \in BOOLEAN /\ busy' \in BOOLEAN /\ (pending' => busy')
    <3>1. \/ busy' = TRUE /\ pending' = pending
          \/ busy /\ pending' = TRUE /\ busy' = busy
          \/ busy' = FALSE /\ pending' = FALSE
      BY <1>3, Zenon DEF TurnGoesOn
    <3>. QED BY <1>0, <3>1, Zenon
  <2>. QED BY <1>0, <2>1, <2>2, StandingStays DEF DispatchInv, Clean, Filtering
<1>4. ASSUME NEW m, Receive(m)
      PROVE  DispatchInv' /\ Filtering
  <2>1. /\ \/ Ends("no voice", "") \/ Ends("ignored", "")
           \/ dispatchPC' = "alias" /\ outcome'.kind = "none" /\ standing' = InForce
        /\ UNCHANGED <<Settled, busy, pending>>
    <3>1. Nothing.kind = "none"
      BY DEF Nothing
    <3>. QED BY <1>4, <3>1 DEF Receive, InForce
  <2>2. /\ dispatchPC' \in {"idle", "alias"} /\ outcome'.kind \in {"no voice", "ignored", "none"}
        /\ standing' \in {NoFilters, InForce}
    BY <2>1, MessageEnds
  <2>. QED BY <1>0, <2>1, <2>2, PassingStep
<1>5. CASE ResolveAlias
  <2>1. dispatchPC' = "filter" /\ UNCHANGED <<Settled, standing, busy, pending, outcome>>
    BY <1>5 DEF ResolveAlias
  <2>. QED BY <1>0, <2>1, PassingStep
<1>6. CASE Filter
  <2>1. /\ \/ Ends("limited", "") \/ Ends("blocked", "")
           \/ DispatchGoes("command")
              /\ (message.content.slash \/ ToSet(message.content.words) \intersect bannedWords = {})
        /\ UNCHANGED <<Settled, busy, pending>>
    BY <1>6 DEF Filter
  <2>2. \/ dispatchPC' = "idle" /\ outcome'.kind \in {"limited", "blocked"} /\ standing' = NoFilters
        \/ message' = message /\ outcome' = outcome /\ standing' = standing /\ Clean
    BY <1>0, <2>1, MessageEnds DEF DispatchGoes, StandingOK, Clean
  <2>. QED BY <1>0, <2>1, <2>2, PassingStep
<1>7. CASE HandleCommand
  <2>1. Clean /\ UNCHANGED <<Settled, busy, pending>>
    BY <1>0, <1>7 DEF HandleCommand
  <2>2. \/ message' = message /\ outcome' = outcome /\ standing' = standing
        \/ dispatchPC' = "idle" /\ outcome'.kind = "disabled" /\ standing' = NoFilters
        \/ /\ dispatchPC' = "idle" /\ outcome'.kind = "builtin" /\ outcome'.id \notin disabledCmds
           /\ standing' = NoFilters
    <3>1. PICK id : \/ DispatchGoes("permission") \/ DispatchGoes("registry")
                    \/ Ends("disabled", id)
                    \/ id \notin disabledCmds /\ Ends("builtin", id)
      BY <1>7, Zenon DEF HandleCommand
    <3>. QED BY <3>1, MessageEnds DEF DispatchGoes
  <2>3. CASE /\ outcome'.kind = "builtin" /\ outcome'.id \notin disabledCmds /\ dispatchPC' = "idle"
             /\ standing' = NoFilters
    <3>1. outcome'.id \notin standing.disabled
      BY <1>0, <2>3 DEF StandingOK
    <3>. QED BY <1>0, <2>1, <2>3, <3>1, StandingStays DEF DispatchInv, Filtering
  <2>. QED BY <1>0, <2>1, <2>2, <2>3, PassingStep
<1>8. CASE ResolveCommand
  <2>1. Clean /\ UNCHANGED <<Settled, pending>> /\ busy' \in BOOLEAN /\ (pending => busy')
    BY <1>0, <1>8 DEF ResolveCommand
  <2>2. \/ message' = message /\ outcome' = outcome /\ standing' = standing
        \/ dispatchPC' = "idle" /\ outcome'.kind \in {"custom", "busy"} /\ standing' = NoFilters
    BY <1>8 DEF ResolveCommand, Ends, DispatchGoes
  <2>. QED BY <1>0, <2>1, <2>2, PassingStep
<1>9. CASE ResolveSkill
  <2>1. Clean /\ UNCHANGED <<Settled, pending>> /\ busy' \in BOOLEAN /\ (pending => busy')
    BY <1>0, <1>9 DEF ResolveSkill
  <2>2. \/ message' = message /\ outcome' = outcome /\ standing' = standing
        \/ dispatchPC' = "idle" /\ outcome'.kind = "busy" /\ standing' = NoFilters
        \/ dispatchPC' = "idle" /\ outcome'.kind = "skill" /\ ~busy /\ standing' = NoFilters
    BY <1>9 DEF ResolveSkill, Ends, DispatchGoes
  <2>3. CASE dispatchPC' = "idle" /\ outcome'.kind = "skill" /\ ~busy /\ standing' = NoFilters
    BY <1>0, <2>1, <2>3, StandingStays DEF DispatchInv, Filtering
  <2>. QED BY <1>0, <2>1, <2>2, <2>3, PassingStep
<1>10. CASE AnswerPermission
  <2>1. Clean /\ UNCHANGED <<Settled, busy, pending>>
    BY <1>0, <1>10 DEF AnswerPermission
  <2>2. \/ message' = message /\ outcome' = outcome /\ standing' = standing
        \/ dispatchPC' = "idle" /\ outcome'.kind = "permission" /\ standing' = NoFilters
    <3>1. Ends("permission", "") \/ DispatchGoes("session")
      BY <1>10, Zenon DEF AnswerPermission
    <3>. QED BY <3>1, MessageEnds DEF DispatchGoes
  <2>. QED BY <1>0, <2>1, <2>2, PassingStep
<1>11. CASE StartTurn
  <2>1. /\ Clean /\ UNCHANGED <<Settled, pending>> /\ busy' = TRUE
        /\ dispatchPC' = "idle" /\ standing' = NoFilters
    BY <1>0, <1>11 DEF StartTurn, Ends
  <2>2. outcome'.kind = "busy" \/ (outcome'.kind = "turn" /\ ~busy)
    <3>1. Ends("busy", "") \/ (~busy /\ Ends("turn", ""))
      BY <1>11, Zenon DEF StartTurn
    <3>. QED BY <3>1, MessageEnds, Zenon
  <2>3. CASE outcome'.kind = "turn" /\ ~busy
    <3>1. ~pending
      BY <1>0, <2>3
    <3>2. DispatchInv'
      BY <1>0, <2>1, StandingStays DEF DispatchInv
    <3>. QED BY <2>1, <2>3, <3>1, <3>2 DEF Filtering, Clean
  <2>. QED BY <1>0, <2>1, <2>2, <2>3, PassingStep
<1>12. ASSUME NEW t, AgentAnswers(t)
       PROVE  DispatchInv' /\ Filtering
  BY <1>0, <1>2, <1>12, StandingStays DEF AgentAnswers
<1>13. CASE SendChunk
  <2>1. /\ UNCHANGED <<Settled, standing, dispatchPC, message>>
        /\ outcome' = outcome \/ outcome'.kind = "none"
    <3>1. Nothing.kind = "none"
      BY DEF Nothing
    <3>2. outcome' = outcome \/ outcome' = Nothing
      BY <1>13, Zenon DEF SendChunk
    <3>. QED BY <1>13, <3>1, <3>2 DEF SendChunk
  <2>2. pending' \in BOOLEAN /\ busy' \in BOOLEAN /\ (pending' => busy')
    <3>1. (busy' = busy /\ pending' = pending) \/ (busy' = FALSE /\ pending' = FALSE)
      BY <1>13, Zenon DEF SendChunk
    <3>2. CASE busy' = busy /\ pending' = pending
      BY <1>0, <3>2
    <3>3. CASE busy' = FALSE /\ pending' = FALSE
      BY <3>3, Zenon
    <3>. QED BY <3>1, <3>2, <3>3, Zenon
  <2>. QED BY <1>0, <2>1, <2>2, StandingStays DEF DispatchInv, Clean, Filtering
<1>14. CASE SplitMessage
  BY <1>0, <1>2, <1>14, StandingStays DEF SplitMessage
<1>15. ASSUME NEW a, \/ CmdAliasDel(a) \/ \E m \in Meaning : CmdAliasAdd(a, m) \/ ReloadAlias(a, m)
                     \/ CmdCommandsAdd(a) \/ CmdCommandsDel(a) \/ FilesChange(a) \/ ReloadCommand(a)
       PROVE  DispatchInv' /\ Filtering
  <2>1. UNCHANGED <<Settled, standing, dispatchPC, message, outcome, busy, pending>>
    BY <1>15 DEF CmdAliasDel, CmdAliasAdd, CmdCommandsAdd, CmdCommandsDel, FilesChange, Change,
       ReloadAlias, ReloadCommand
  <2>. QED BY <1>0, <1>2, <2>1, StandingStays
<1>16. CASE ClearCommands \/ ClearAliases
  <2>1. UNCHANGED <<Settled, standing, dispatchPC, message, outcome, busy, pending>>
    BY <1>16 DEF ClearCommands, ClearAliases
  <2>. QED BY <1>0, <1>2, <2>1, StandingStays
<1>17. ASSUME NEW words, ReloadBannedWords(words)
       PROVE  DispatchInv' /\ Filtering
  <2>1. /\ UNCHANGED <<disabledCmds, dispatchPC, message, outcome, busy, pending>>
        /\ bannedWords' = words
        /\ standing' = [standing EXCEPT !.banned = @ \intersect words]
    BY <1>17 DEF ReloadBannedWords
  <2>2. standing' = [banned |-> standing.banned \intersect words, disabled |-> standing.disabled]
    BY <1>0, <2>1 DEF StandingOK
  <2>. QED BY <1>0, <1>2, <2>1, <2>2 DEF StandingOK
<1>18. ASSUME NEW list, ReloadDisabledCommands(list)
       PROVE  DispatchInv' /\ Filtering
  <2>1. /\ UNCHANGED <<bannedWords, dispatchPC, message, outcome, busy, pending>>
        /\ standing' = [standing EXCEPT !.disabled = @ \intersect disabledCmds']
    BY <1>18 DEF ReloadDisabledCommands
  <2>2. standing' = [banned |-> standing.banned, disabled |-> standing.disabled \intersect disabledCmds']
    BY <1>0, <2>1 DEF StandingOK
  <2>. QED BY <1>0, <1>2, <2>1, <2>2 DEF StandingOK
<1>. HIDE DEF Outside, Registries, Settled, Answering, OnTheWay
<1>. QED BY <1>1, <1>3, <1>4, <1>5, <1>6, <1>7, <1>8, <1>9, <1>10, <1>11, <1>12, <1>13, <1>15,
     <1>14, <1>16, <1>17, <1>18, Zenon DEF DispatchNext

LEMMA InitDispatch == DispatchInit => DispatchInv
<1>. SUFFICES ASSUME DispatchInit PROVE DispatchInv
  OBVIOUS
<1>1. standing = NoFilters /\ dispatchPC = "idle" /\ pending = FALSE /\ busy = FALSE
  BY Zenon DEF DispatchInit
<1>2. StandingOK
  BY <1>1 DEF StandingOK, NoFilters
<1>. QED BY <1>1, <1>2 DEF DispatchInv

\* However the registries change on the way of a message, whatever a /reload replaces
\* and the turn of its chat does meanwhile, what is banned or disabled all the while
\* holds for it: FiltersHold (handleMessage, handleCommand, reloadConfig).
THEOREM FiltersAlwaysHold == DispatchSpec => FiltersHold
<1>1. DispatchInit => DispatchInv
  BY InitDispatch
<1>2. DispatchInv /\ [DispatchNext]_dispatchVars => DispatchInv'
  BY DispatchStep
<1>3. DispatchInv /\ [DispatchNext]_dispatchVars => [Filtering]_dispatchVars
  BY DispatchStep
<1>. QED BY <1>1, <1>2, <1>3, PTL DEF DispatchSpec, FiltersHold, Filtering

-----------------------------------------------------------------------------
(* Dispatch: the pieces of an answer.                                      *)

\* The function that FlattenSeq defines, and that there is one.
Flattens(s, g) ==
  g = [i \in 1..Len(s) |-> IF i = 1 THEN s[i] ELSE g[i - 1] \o s[i]]

LEMMA FlattenHasValues ==
  ASSUME NEW T, NEW s \in Seq(Seq(T))
  PROVE  \E g : Flattens(s, g)
<1>1. Len(s) \in Nat
  BY LenProperties
<1>. DEFINE Part(n, g) == g = [i \in 1..n |-> IF i = 1 THEN s[i] ELSE g[i - 1] \o s[i]]
            U == {n \in 0..Len(s) : \E g : Part(n, g)}
<1>2. 0 \in U
  <2>1. Part(0, [i \in 1..0 |-> <<>>])
    OBVIOUS
  <2>2. \E g : Part(0, g)
    BY <2>1
  <2>3. 0 \in 0..Len(s)
    BY <1>1
  <2>. QED BY <2>2, <2>3, Zenon
<1>3. ASSUME NEW n \in 1..Len(s), n - 1 \in U PROVE n \in U
  <2>1. PICK g : Part(n - 1, g)
    BY <1>3
  <2>. DEFINE new == IF n = 1 THEN s[n] ELSE g[n - 1] \o s[n]
              h == [i \in 1..n |-> IF i = n THEN new ELSE g[i]]
  <2>2. h[n] = new /\ \A i \in 1..(n - 1) : h[i] = g[i]
    <3>1. n \in 1..n /\ \A i \in 1..(n - 1) : i \in 1..n /\ i # n
      BY <1>1
    <3>. HIDE DEF new
    <3>. QED BY <3>1
  <2>3. \A i \in 1..n : i = n \/ (i \in 1..(n - 1) /\ (i = 1 \/ i - 1 \in 1..(n - 1)))
    BY <1>1
  <2>4. \A i \in 1..(n - 1) : g[i] = IF i = 1 THEN s[i] ELSE g[i - 1] \o s[i]
    BY <2>1
  <2>5. n = 1 \/ h[n - 1] = g[n - 1]
    BY <1>1, <2>2
  <2>6. \A i \in 1..n : h[i] = IF i = 1 THEN s[i] ELSE h[i - 1] \o s[i]
    BY <1>1, <2>2, <2>3, <2>4, <2>5
  <2>7. Part(n, h)
    BY <2>6
  <2>8. \E f : Part(n, f)
    BY <2>7
  <2>9. n \in 0..Len(s)
    BY <1>1
  <2>. QED BY <2>8, <2>9, Zenon
<1>4. Len(s) \in U
  <2>. HIDE DEF U
  <2>1. \A n \in 1..Len(s) : n - 1 \in U => n \in U
    BY <1>3
  <2>2. 0..Len(s) \subseteq U
    BY <1>1, <1>2, <2>1, UpTo
  <2>. QED BY <1>1, <2>2
<1>. QED BY <1>4 DEF Flattens

\* FlattenSeq is its last value.
LEMMA FlattenLoop ==
  ASSUME NEW T, NEW s \in Seq(Seq(T)), Len(s) # 0
  PROVE  \E g : Flattens(s, g) /\ FlattenSeq(s) = g[Len(s)]
<1>. DEFINE f == CHOOSE g : Flattens(s, g)
<1>1. Flattens(s, f)
  BY FlattenHasValues, Zenon
<1>2. FlattenSeq(s) = f[Len(s)]
  BY Zenon DEF FlattenSeq, Flattens
<1>. QED BY <1>1, <1>2

\* A piece more is put behind.
LEMMA FlattenAppend ==
  ASSUME NEW T, NEW s \in Seq(Seq(T)), NEW x \in Seq(T)
  PROVE  /\ FlattenSeq(<<>>) = <<>> /\ FlattenSeq(s) \in Seq(T)
         /\ FlattenSeq(Append(s, x)) = FlattenSeq(s) \o x
<1>. DEFINE t == Append(s, x)
            n == Len(s)
<1>1. /\ t \in Seq(Seq(T)) /\ Len(t) = n + 1 /\ n \in Nat
      /\ t[n + 1] = x /\ \A i \in 1..n : t[i] = s[i] /\ s[i] \in Seq(T)
  BY AppendProperties, LenProperties, ElementOfSeq
<1>2. FlattenSeq(<<>>) = <<>>
  BY Zenon, EmptySeq DEF FlattenSeq
<1>. HIDE DEF t, n
<1>3. PICK h : Flattens(t, h) /\ FlattenSeq(t) = h[n + 1]
  <2>1. Len(t) # 0
    BY <1>1
  <2>. QED BY <1>1, <2>1, FlattenLoop
<1>4. \A i \in 1..(n + 1) : h[i] = IF i = 1 THEN t[i] ELSE h[i - 1] \o t[i]
  BY <1>1, <1>3 DEF Flattens
<1>5. CASE n = 0
  <2>1. s = <<>> /\ h[1] = x
    BY <1>1, <1>4, <1>5, EmptySeq DEF n
  <2>2. FlattenSeq(s) = <<>> /\ <<>> \in Seq(T) /\ <<>> \o x = x
    BY <1>2, <2>1, EmptySeq, ConcatEmptySeq
  <2>3. FlattenSeq(t) = x
    BY <1>3, <1>5, <2>1
  <2>. QED BY <1>2, <2>1, <2>2, <2>3, Zenon DEF t
<1>6. CASE n # 0
  <2>1. PICK g : Flattens(s, g) /\ FlattenSeq(s) = g[n]
    BY <1>6, FlattenLoop DEF n
  <2>2. \A i \in 1..n : g[i] = IF i = 1 THEN s[i] ELSE g[i - 1] \o s[i]
    BY <2>1 DEF Flattens, n
  <2>. DEFINE U == {i \in 0..n : i = 0 \/ (g[i] = h[i] /\ g[i] \in Seq(T))}
  <2>3. ASSUME NEW i \in 1..n, i - 1 \in U PROVE i \in U
    <3>1. i \in 1..(n + 1) /\ t[i] = s[i] /\ s[i] \in Seq(T) /\ i - 1 \in 0..n
      BY <1>1
    <3>2. CASE i = 1
      BY <1>1, <1>4, <2>2, <3>1, <3>2
    <3>3. CASE i # 1
      <4>1. g[i - 1] = h[i - 1] /\ g[i - 1] \in Seq(T)
        BY <2>3, <3>3
      <4>2. g[i] = g[i - 1] \o s[i] /\ h[i] = h[i - 1] \o t[i]
        BY <1>4, <2>2, <3>1, <3>3
      <4>3. g[i - 1] \o s[i] \in Seq(T)
        BY <3>1, <4>1, ConcatProperties
      <4>4. g[i] = h[i] /\ g[i] \in Seq(T) /\ i \in 0..n
        BY <1>1, <3>1, <4>1, <4>2, <4>3
      <4>. QED BY <4>4, Zenon
    <3>. QED BY <3>2, <3>3
  <2>4. 0 \in U
    BY <1>1
  <2>5. n \in U
    <3>. HIDE DEF U
    <3>1. \A i \in 1..n : i - 1 \in U => i \in U
      BY <2>3
    <3>2. 0..n \subseteq U
      BY <1>1, <2>4, <3>1, UpTo
    <3>. QED BY <1>1, <3>2
  <2>6. g[n] = h[n] /\ g[n] \in Seq(T)
    BY <1>6, <2>5
  <2>7. h[n + 1] = h[n] \o x
    <3>1. n + 1 \in 1..(n + 1) /\ n + 1 # 1 /\ (n + 1) - 1 = n
      BY <1>1, <1>6
    <3>. QED BY <1>1, <1>4, <3>1
  <2>. QED BY <1>2, <1>3, <2>1, <2>6, <2>7 DEF t
<1>. QED BY <1>5, <1>6

\* The pieces that were sent, and those that were not.
Piece == Seq(Char)
AnswerInv ==
  /\ answer \in Seq(Char) /\ rest \in Seq(Char)
  /\ pieces \in Seq(Piece) /\ unsent \in Seq(Piece)
  /\ answer = <<>> => rest = <<>> /\ pieces = <<>> /\ unsent = <<>>
  /\ AnswerIsWhole

\* A cut is inside of the text and leaves a piece that fits.
LEMMA CutFits ==
  ASSUME NEW t \in Seq(Char)
  PROVE  Cut(t) \in 1..MaxLen
<1>1. CASE LineEnds(t) = {}
  BY <1>1, DispatchAssumption DEF Cut
<1>2. CASE LineEnds(t) # {}
  <2>. DEFINE S == LineEnds(t)
              D == {MaxLen - i : i \in S}
  <2>1. S \subseteq 2..MaxLen /\ S # {}
    BY <1>2 DEF LineEnds
  <2>2. D \subseteq Nat /\ D # {}
    BY <2>1, DispatchAssumption
  <2>. HIDE DEF S
  <2>3. PICK d \in D : \A e \in D : d <= e
    <3>. HIDE DEF D
    <3>. QED BY <2>2, NatLeast
  <2>4. PICK m \in S : d = MaxLen - m
    OBVIOUS
  <2>5. \A i \in S : m >= i
    <3>1. \A i \in S : d <= MaxLen - i
      BY <2>3
    <3>2. \A i \in S : i \in Nat
      BY <2>1
    <3>. QED BY <2>4, <3>1, <3>2, DispatchAssumption
  <2>6. Max(S) \in S
    BY <2>4, <2>5, Zenon DEF Max
  <2>. QED BY <1>2, <2>1, <2>6, DispatchAssumption DEF Cut, S
<1>. QED BY <1>1, <1>2

\* What is cut off and what is left are the text.
LEMMA CutIsWhole ==
  ASSUME NEW t \in Seq(Char), NEW end \in 1..Len(t)
  PROVE  /\ SubSeq(t, 1, end) \in Seq(Char) /\ Len(SubSeq(t, 1, end)) = end
         /\ SubSeq(t, end + 1, Len(t)) \in Seq(Char)
         /\ SubSeq(t, 1, end) \o SubSeq(t, end + 1, Len(t)) = t
<1>1. Len(t) \in Nat /\ \A i \in 1..Len(t) : t[i] \in Char
  BY LenProperties, ElementOfSeq
<1>2. \A i \in 1..end : t[i] \in Char
  BY <1>1
<1>3. \A i \in (end + 1)..Len(t) : t[i] \in Char
  BY <1>1
<1>4. SubSeq(t, 1, end) \in Seq(Char) /\ Len(SubSeq(t, 1, end)) = end
  BY <1>1, <1>2, SubSeqProperties
<1>5. SubSeq(t, end + 1, Len(t)) \in Seq(Char)
  BY <1>1, <1>3, SubSeqProperties
<1>6. SubSeq(t, 1, end) \o SubSeq(t, end + 1, Len(t)) = SubSeq(t, 1, Len(t))
  BY <1>1, ConcatAdjacentSubSeq
<1>7. SubSeq(t, 1, Len(t)) = t
  BY SubSeqFull
<1>. QED BY <1>4, <1>5, <1>6, <1>7

LEMMA AppendedItem ==
  ASSUME NEW S, NEW s \in Seq(S), NEW e \in S
  PROVE  ToSet(Append(s, e)) = ToSet(s) \union {e}
<1>. DEFINE t == Append(s, e)
<1>1. /\ \A i \in DOMAIN s : i \in DOMAIN t /\ t[i] = s[i]
      /\ \E j \in DOMAIN t : t[j] = e
      /\ \A j \in DOMAIN t :
           \/ j \in DOMAIN s /\ t[j] = s[j]
           \/ t[j] = e
  BY AppendItems
<1>. HIDE DEF t
<1>2. ToSet(t) = ToSet(s) \union {e}
  BY <1>1 DEF ToSet
<1>. QED BY <1>2 DEF t

\* A piece that is cut off goes behind the others.
LEMMA SplitKept ==
  ASSUME AnswerInv, SplitMessage
  PROVE  AnswerInv'
<1>. DEFINE end == IF Len(rest) <= MaxLen THEN Len(rest) ELSE Cut(rest)
            x == SubSeq(rest, 1, end)
            all == pieces \o unsent
<1>1. /\ rest # <<>> /\ unsent' = Append(unsent, x) /\ rest' = SubSeq(rest, end + 1, Len(rest))
      /\ answer' = answer /\ pieces' = pieces
  BY DEF SplitMessage
<1>2. end \in 1..Len(rest) /\ end \in 1..MaxLen
  <2>1. rest \in Seq(Char) /\ Len(rest) \in Nat \ {0}
    BY <1>1, EmptySeq DEF AnswerInv
  <2>2. Cut(rest) \in 1..MaxLen
    BY <2>1, CutFits
  <2>. QED BY <2>1, <2>2, DispatchAssumption
<1>. HIDE DEF end
<1>3. x \in Piece /\ Len(x) \in 1..MaxLen /\ rest' \in Seq(Char) /\ x \o rest' = rest
  BY <1>1, <1>2, CutIsWhole DEF AnswerInv, Piece
<1>. HIDE DEF x
<1>4. all \in Seq(Piece) /\ unsent' \in Seq(Piece) /\ pieces' \o unsent' = Append(all, x)
  <2>1. unsent' = unsent \o <<x>> /\ unsent' \in Seq(Piece) /\ <<x>> \in Seq(Piece)
    BY <1>1, <1>3, AppendIsConcat, AppendProperties DEF AnswerInv
  <2>2. all \in Seq(Piece) /\ Append(all, x) = all \o <<x>>
    BY <1>3, ConcatProperties, AppendIsConcat DEF AnswerInv
  <2>3. pieces \o (unsent \o <<x>>) = all \o <<x>>
    BY <2>1, ConcatAssociative DEF AnswerInv
  <2>. QED BY <1>1, <2>1, <2>2, <2>3
<1>5. \A piece \in ToSet(pieces' \o unsent') : Len(piece) \in 1..MaxLen
  <2>1. \A piece \in ToSet(all) : Len(piece) \in 1..MaxLen
    BY DEF AnswerInv, AnswerIsWhole
  <2>2. ToSet(Append(all, x)) = ToSet(all) \union {x}
    <3>. HIDE DEF all
    <3>. QED BY <1>3, <1>4, AppendedItem
  <2>. QED BY <1>3, <1>4, <2>1, <2>2
<1>6. FlattenSeq(pieces' \o unsent') \o rest' = answer'
  <2>1. FlattenSeq(all) \in Seq(Char) /\ FlattenSeq(Append(all, x)) = FlattenSeq(all) \o x
    <3>. HIDE DEF all
    <3>. QED BY <1>3, <1>4, FlattenAppend DEF Piece
  <2>2. (FlattenSeq(all) \o x) \o rest' = FlattenSeq(all) \o (x \o rest')
    <3>. DEFINE sent == FlattenSeq(all)
    <3>1. sent \in Seq(Char) /\ x \in Seq(Char) /\ rest' \in Seq(Char)
      BY <1>3, <2>1 DEF Piece
    <3>. HIDE DEF sent
    <3>2. (sent \o x) \o rest' = sent \o (x \o rest')
      BY <3>1, ConcatAssociative
    <3>. QED BY <3>2 DEF sent
  <2>3. FlattenSeq(all) \o rest = answer
    BY DEF AnswerInv, AnswerIsWhole
  <2>. QED BY <1>1, <1>3, <1>4, <2>1, <2>2, <2>3
<1>7. AnswerIsWhole'
  BY <1>5, <1>6 DEF AnswerIsWhole
<1>. QED BY <1>1, <1>3, <1>4, <1>7 DEF AnswerInv

\* A piece that is sent stays where it was among them.
LEMMA ChunkKept ==
  ASSUME AnswerInv, SendChunk
  PROVE  AnswerInv'
<1>1. rest = <<>> /\ rest' = <<>> /\ unsent # <<>>
  BY DEF SendChunk
<1>2. CASE answer' = <<>> /\ pieces' = <<>> /\ unsent' = <<>>
  <2>1. FlattenSeq(<<>>) = <<>> /\ <<>> \o <<>> = <<>>
    BY Zenon, FlattenAppend, EmptySeq, ConcatEmptySeq DEF Piece
  <2>2. ToSet(<<>> \o <<>>) = {}
    BY <2>1 DEF ToSet
  <2>3. AnswerIsWhole'
    BY <1>1, <1>2, <2>1, <2>2 DEF AnswerIsWhole
  <2>. QED BY <1>1, <1>2, <2>3, EmptySeq DEF AnswerInv
<1>3. CASE /\ pieces' = Append(pieces, Head(unsent)) /\ unsent' = Tail(unsent)
           /\ answer' = answer
  <2>. DEFINE x == Head(unsent)
  <2>1. x \in Piece /\ Tail(unsent) \in Seq(Piece) /\ unsent = <<x>> \o Tail(unsent)
    <3>1. unsent \in Seq(Piece)
      BY DEF AnswerInv
    <3>2. x \in Piece /\ Tail(unsent) \in Seq(Piece)
      BY <1>1, <3>1, HeadTailProperties
    <3>3. unsent = <<x>> \o Tail(unsent)
      BY <1>1, <3>1
    <3>. QED BY <3>2, <3>3
  <2>. HIDE DEF x
  <2>2. pieces \in Seq(Piece) /\ pieces' \in Seq(Piece) /\ pieces' = pieces \o <<x>> /\ <<x>> \in Seq(Piece)
    BY <1>3, <2>1, AppendProperties, AppendIsConcat DEF AnswerInv, x
  <2>3. pieces' \o unsent' = pieces \o unsent
    BY <1>3, <2>1, <2>2, ConcatAssociative
  <2>4. AnswerIsWhole'
    BY <1>1, <1>3, <2>3 DEF AnswerInv, AnswerIsWhole
  <2>. QED BY <1>1, <1>3, <2>1, <2>2, <2>4 DEF AnswerInv
<1>. QED BY <1>2, <1>3, Zenon DEF SendChunk

LEMMA AnswerStep == AnswerInv /\ [DispatchNext]_dispatchVars => AnswerInv'
<1>. SUFFICES ASSUME AnswerInv, [DispatchNext]_dispatchVars PROVE AnswerInv'
  OBVIOUS
<1>1. CASE UNCHANGED Answering
  BY <1>1 DEF Answering, AnswerInv, AnswerIsWhole
<1>2. ASSUME NEW t \in Text, AgentAnswers(t) PROVE AnswerInv'
  <2>1. answer = <<>> /\ answer' = t /\ rest' = t /\ UNCHANGED <<pieces, unsent>>
    BY <1>2 DEF AgentAnswers
  <2>2. t \in Seq(Char) /\ t # <<>>
    <3>1. PICK n \in 1..MaxAnswer : t \in [1..n -> Char]
      BY DEF Text
    <3>2. n \in Nat /\ n # 0
      BY DispatchAssumption
    <3>. QED BY <3>1, <3>2, FunctionIsSeq, EmptySeq, LenProperties
  <2>3. pieces = <<>> /\ unsent = <<>>
    BY <2>1 DEF AnswerInv
  <2>4. FlattenSeq(<<>>) = <<>> /\ <<>> \o <<>> = <<>> /\ <<>> \o t = t
    BY <2>2, FlattenAppend, EmptySeq, ConcatEmptySeq
  <2>5. ToSet(<<>> \o <<>>) = {}
    BY <2>4 DEF ToSet
  <2>6. AnswerIsWhole'
    BY <2>1, <2>3, <2>4, <2>5 DEF AnswerIsWhole
  <2>. QED BY <2>1, <2>2, <2>3, <2>6 DEF AnswerInv
<1>3. ASSUME DispatchNext PROVE \/ UNCHANGED Answering \/ SplitMessage \/ SendChunk
                                \/ \E t \in Text : AgentAnswers(t)
  BY <1>3, Zenon DEF DispatchNext, CmdAliasDel, CmdAliasAdd, CmdCommandsAdd, CmdCommandsDel,
     FilesChange, Change, ReloadAlias, ReloadCommand, ClearCommands, ClearAliases,
     ReloadBannedWords, ReloadDisabledCommands, OnTheWay, Receive, TurnGoesOn, ResolveAlias, Filter, HandleCommand, ResolveCommand,
     ResolveSkill, AnswerPermission, StartTurn, Outside
<1>4. UNCHANGED dispatchVars => UNCHANGED Answering
  BY DEF dispatchVars, Answering
<1>. QED BY <1>1, <1>2, <1>3, <1>4, SplitKept, ChunkKept

LEMMA InitAnswer == DispatchInit => AnswerInv
<1>1. FlattenSeq(<<>>) = <<>> /\ <<>> \o <<>> = <<>>
  BY FlattenAppend, EmptySeq, ConcatEmptySeq
<1>2. ToSet(<<>> \o <<>>) = {}
  BY <1>1 DEF ToSet
<1>3. DispatchInit => answer = <<>> /\ rest = <<>> /\ pieces = <<>> /\ unsent = <<>>
  BY Zenon DEF DispatchInit
<1>. QED BY <1>1, <1>2, <1>3, EmptySeq DEF AnswerInv, AnswerIsWhole

\* However long an answer is and wherever its lines end, its pieces fit the platform, none
\* is empty, and together they are the answer: AnswerIsWhole.
THEOREM EveryAnswerIsWhole == DispatchSpec => []AnswerIsWhole
<1>1. DispatchInit => AnswerInv
  BY InitAnswer
<1>2. AnswerInv /\ [DispatchNext]_dispatchVars => AnswerInv'
  BY AnswerStep
<1>3. AnswerInv => AnswerIsWhole
  BY DEF AnswerInv
<1>. QED BY <1>1, <1>2, <1>3, PTL DEF DispatchSpec

-----------------------------------------------------------------------------
(* Dispatch: the types of the way of a message.                            *)

BuiltinId == {c.id : c \in Builtin}
OutcomeId == {""} \union Custom \union BuiltinId
AnyContent == [slash : BOOLEAN, words : Seq(Word)]
AnyMessage == [content : AnyContent, image : BOOLEAN]
AnyOutcome == [kind : Kind, id : OutcomeId]
DispatchPC == {"idle", "alias", "filter", "command", "registry", "skill", "permission", "session"}

\* matchPrefix returns the id of a command or nothing: what it chooses from has one
\* element.
LEMMA MatchIsId ==
  ASSUME NEW w
  PROVE  MatchPrefix(w) \in {""} \union BuiltinId
<1>. DEFINE exact == {c \in Builtin : w \in c.names}
            begun == {c \in Builtin : \E n \in c.names : IsPrefix(w, n)}
            found == IF exact # {} THEN exact ELSE begun
<1>1. found \subseteq Builtin
  <2>. HIDE DEF Builtin
  <2>. QED OBVIOUS
<1>2. MatchPrefix(w) = IF Cardinality(found) = 1 THEN (CHOOSE c \in found : TRUE).id ELSE ""
  BY Zenon DEF MatchPrefix
<1>. HIDE DEF found
<1>3. CASE Cardinality(found) = 1
  <2>1. found # {}
    <3>. SUFFICES ASSUME found = {} PROVE FALSE
      OBVIOUS
    <3>1. Cardinality(found) = 0
      BY FS_EmptySet
    <3>. QED BY <1>3, <3>1
  <2>2. PICK d : d = CHOOSE c \in found : TRUE
    OBVIOUS
  <2>3. d \in found
    BY <2>1, <2>2, Zenon
  <2>4. d.id \in BuiltinId
    BY <1>1, <2>3, Zenon DEF BuiltinId
  <2>. QED BY <1>2, <1>3, <2>2, <2>4
<1>. QED BY <1>2, <1>3

\* "update" is a name of /upgrade and of no other command.
LEMMA UpdateIsUpgrade == MatchPrefix("update") = "upgrade"
<1>. DEFINE u == [id |-> "upgrade", names |-> {"upgrade", "update"}]
            exact == {c \in Builtin : "update" \in c.names}
<1>1. u \in Builtin /\ "update" \in u.names /\ u.id = "upgrade"
  BY Zenon DEF Builtin
<1>2. \A c \in Builtin : "update" \in c.names => c = u
  BY DEF Builtin
<1>. HIDE DEF u
<1>3. exact = {u}
  BY <1>1, <1>2, Zenon
<1>. HIDE DEF exact
<1>4. Cardinality(exact) = 1 /\ exact # {}
  BY <1>3, FS_Singleton
<1>5. (CHOOSE c \in exact : TRUE) = u
  BY <1>3
<1>. QED BY <1>1, <1>4, <1>5 DEF MatchPrefix, exact

\* The registries, where the message is and what it is, and its outcome.
WayOK ==
  /\ DOMAIN aliases \subseteq Alias /\ aliases \in [DOMAIN aliases -> Meaning]
  /\ registered \subseteq Custom /\ files \subseteq Custom
  /\ skills \subseteq Custom /\ scanned \subseteq Custom
  /\ changes \in 0..MaxChange
  /\ dispatchPC \in DispatchPC
  /\ message \in AnyMessage
  /\ outcome \in AnyOutcome

SettledOK ==
  /\ disabledCmds \subseteq BuiltinId \union Word /\ bannedWords \subseteq Word
  /\ reload \in {"none", "commands", "aliases", "disabled"}

\* The pieces are parts of an answer, and an answer is not longer than the bound.
PiecesOK ==
  /\ Len(rest) <= MaxAnswer
  /\ pieces \in Seq(Text) /\ unsent \in Seq(Text)

LEMMA SilenceType == Silence \in AnyMessage /\ Nothing \in AnyOutcome
<1>1. [slash |-> FALSE, words |-> <<>>] \in AnyContent
  BY EmptySeq DEF AnyContent
<1>. QED BY <1>1 DEF Silence, Nothing, AnyMessage, AnyOutcome, Kind, OutcomeId

\* A message goes on, or ends.
LEMMA MessageGoes ==
  ASSUME WayOK, UNCHANGED <<aliases, registered, files, skills, changes>>, scanned' \subseteq Custom,
         \/ \E to \in DispatchPC : DispatchGoes(to)
         \/ \E what \in Kind, which \in OutcomeId : Ends(what, which)
  PROVE  WayOK'
<1>1. dispatchPC' \in DispatchPC /\ message' \in AnyMessage /\ outcome' \in AnyOutcome
  <2>1. ASSUME NEW to \in DispatchPC, DispatchGoes(to)
        PROVE  dispatchPC' \in DispatchPC /\ message' \in AnyMessage /\ outcome' \in AnyOutcome
    BY <2>1 DEF DispatchGoes, WayOK
  <2>2. ASSUME NEW what \in Kind, NEW which \in OutcomeId, Ends(what, which)
        PROVE  dispatchPC' \in DispatchPC /\ message' \in AnyMessage /\ outcome' \in AnyOutcome
    BY <2>2, SilenceType DEF Ends, DispatchPC, AnyOutcome
  <2>. QED BY <2>1, <2>2
<1>. QED BY <1>1 DEF WayOK

\* What stands first in a message is a word.
LEMMA MessageWords ==
  ASSUME WayOK
  PROVE  /\ message.content \in AnyContent /\ message.content.words \in Seq(Word)
         /\ message.content.slash \in BOOLEAN /\ message.image \in BOOLEAN
BY DEF WayOK, AnyMessage, AnyContent

\* A message on its way.
LEMMA WayKept ==
  ASSUME WayOK, \/ \E m \in Message : Receive(m)
                \/ Filter \/ HandleCommand \/ ResolveCommand \/ ResolveSkill
                \/ AnswerPermission \/ StartTurn
  PROVE  WayOK'
<1>. DEFINE still == UNCHANGED <<aliases, registered, files, skills, changes>>
            on == \E to \in DispatchPC : DispatchGoes(to)
            over == \E what \in Kind, which \in OutcomeId : Ends(what, which)
<1>1. UNCHANGED Outside => still
  BY DEF Outside, Registries
<1>2. scanned \subseteq Custom /\ skills \subseteq Custom /\ registered \subseteq Custom /\ files \subseteq Custom
  BY DEF WayOK
<1>3. /\ \A to \in DispatchPC : DispatchGoes(to) => on
      /\ \A what \in Kind, which \in OutcomeId : Ends(what, which) => over
  OBVIOUS
<1>4. ASSUME still, scanned' \subseteq Custom, on \/ over
      PROVE  WayOK'
  BY <1>4, MessageGoes
<1>5. "" \in OutcomeId /\ BuiltinId \subseteq OutcomeId /\ Custom \subseteq OutcomeId
  BY DEF OutcomeId
<1>. HIDE DEF on, over
<1>6. ASSUME NEW m \in Message, Receive(m)
      PROVE  WayOK'
  <2>1. still /\ UNCHANGED scanned
    BY <1>1, <1>6 DEF Receive
  <2>2. CASE \E what \in {"no voice", "ignored"} : Ends(what, "")
    BY <1>2, <1>3, <1>4, <1>5, <2>1, <2>2 DEF Kind
  <2>3. CASE dispatchPC' = "alias" /\ message' = m /\ outcome' = Nothing
    <3>1. m.content.words \in Seq(Word)
      <4>1. m.content \in Content
        BY DEF Message
      <4>2. m.content.words \in {<<>>} \union {<<v>> : v \in Word} \union {<<v, "secret">> : v \in {"ship", "allow"}}
        BY <4>1 DEF Content
      <4>3. <<>> \in Seq(Word) /\ \A v, w \in Word : <<v>> \in Seq(Word) /\ <<v, w>> \in Seq(Word)
        BY EmptySeq
      <4>4. {"ship", "allow", "secret"} \subseteq Word
        BY DEF Word
      <4>. HIDE DEF Word
      <4>. QED BY <4>2, <4>3, <4>4
    <3>2. m \in AnyMessage
      BY <3>1 DEF Message, Content, AnyMessage, AnyContent
    <3>. QED BY <2>1, <2>3, <3>2, SilenceType DEF WayOK, DispatchPC
  <2>. QED BY <1>6, <2>2, <2>3, Zenon DEF Receive
<1>7. CASE Filter
  <2>1. still /\ UNCHANGED scanned
    BY <1>1, <1>7 DEF Filter
  <2>2. (\E what \in {"limited", "blocked"} : Ends(what, "")) \/ DispatchGoes("command")
    BY <1>7 DEF Filter
  <2>. QED BY <1>2, <1>3, <1>4, <1>5, <2>1, <2>2 DEF Kind, DispatchPC
<1>8. CASE HandleCommand
  <2>1. still /\ UNCHANGED scanned
    BY <1>1, <1>8 DEF HandleCommand
  <2>2. \/ \E to \in {"permission", "registry"} : DispatchGoes(to)
        \/ \E what \in {"disabled", "builtin"} : Ends(what, MatchPrefix(Typed))
    BY <1>8, Zenon DEF HandleCommand
  <2>3. MatchPrefix(Typed) \in OutcomeId
    BY MatchIsId DEF OutcomeId
  <2>. QED BY <1>2, <1>3, <1>4, <2>1, <2>2, <2>3 DEF Kind, DispatchPC
<1>9. CASE ResolveCommand
  <2>1. still /\ UNCHANGED scanned
    BY <1>1, <1>9 DEF ResolveCommand
  <2>2. \/ DispatchGoes("skill")
        \/ Typed \in Custom /\ \E what \in {"custom", "busy"} : Ends(what, Typed)
    BY <1>2, <1>9 DEF ResolveCommand
  <2>. QED BY <1>2, <1>3, <1>4, <1>5, <2>1, <2>2 DEF Kind, DispatchPC
<1>10. CASE ResolveSkill
  <2>1. ListAll \subseteq Custom
    BY <1>2 DEF ListAll
  <2>2. still /\ scanned' \subseteq Custom
    BY <1>1, <1>10, <2>1 DEF ResolveSkill
  <2>3. \/ DispatchGoes("permission")
        \/ Typed \in Custom /\ \E what \in {"skill", "busy"} : Ends(what, Typed)
    BY <1>10, <2>1 DEF ResolveSkill
  <2>. QED BY <1>3, <1>4, <1>5, <2>2, <2>3 DEF Kind, DispatchPC
<1>11. CASE AnswerPermission
  <2>1. still /\ UNCHANGED scanned
    BY <1>1, <1>11 DEF AnswerPermission
  <2>2. Ends("permission", "") \/ DispatchGoes("session")
    BY <1>11 DEF AnswerPermission
  <2>. QED BY <1>2, <1>3, <1>4, <1>5, <2>1, <2>2 DEF Kind, DispatchPC
<1>12. CASE StartTurn
  <2>1. still /\ UNCHANGED scanned
    BY <1>1, <1>12 DEF StartTurn
  <2>2. \E what \in {"busy", "turn"} : Ends(what, "")
    BY <1>12 DEF StartTurn
  <2>. QED BY <1>2, <1>3, <1>4, <1>5, <2>1, <2>2 DEF Kind
<1>. QED BY <1>6, <1>7, <1>8, <1>9, <1>10, <1>11, <1>12

\* What an alias means takes the place of the whole message or of its first word.
LEMMA AliasKept ==
  ASSUME WayOK, ResolveAlias
  PROVE  WayOK'
<1>. DEFINE c == message.content
            first == [c EXCEPT !.words = IF @ = <<>> THEN @ ELSE <<Head(@)>>]
            more == [aliases[first] EXCEPT !.words = @ \o Tail(c.words)]
            means == CASE c \in DOMAIN aliases -> aliases[c]
                       [] c \notin DOMAIN aliases /\ first \in DOMAIN aliases -> more
                       [] OTHER -> c
<1>1. c \in AnyContent /\ c.words \in Seq(Word) /\ message \in AnyMessage
  BY MessageWords DEF WayOK
<1>2. \A a \in DOMAIN aliases : /\ aliases[a] \in AnyContent
                                /\ aliases[a].words \in Seq(Word)
  <2>1. \A a \in DOMAIN aliases : aliases[a] \in Meaning
    BY DEF WayOK
  <2>2. {"up", "ship"} \subseteq Word
    BY DEF Word
  <2>3. \A v \in Word : <<v>> \in Seq(Word)
    OBVIOUS
  <2>4. \A m \in Meaning : m \in AnyContent /\ m.words \in Seq(Word)
    <3>. HIDE DEF Word
    <3>. QED BY <2>2, <2>3 DEF Meaning, AnyContent
  <2>. QED BY <2>1, <2>4
<1>3. ASSUME first \in DOMAIN aliases, c \notin DOMAIN aliases
      PROVE  more \in AnyContent
  <2>1. c.words # <<>>
    <3>. SUFFICES ASSUME c.words = <<>> PROVE FALSE
      OBVIOUS
    <3>1. first = c
      BY <1>1 DEF AnyContent
    <3>. QED BY <1>3, <3>1
  <2>2. Tail(c.words) \in Seq(Word)
    BY <1>1, <2>1, HeadTailProperties
  <2>3. aliases[first].words \o Tail(c.words) \in Seq(Word)
    BY <1>2, <1>3, <2>2, ConcatProperties
  <2>. QED BY <1>2, <1>3, <2>3 DEF AnyContent
<1>. HIDE DEF more, first
<1>4. means \in AnyContent
  BY <1>1, <1>2, <1>3
<1>. HIDE DEF means
<1>5. /\ message' = [message EXCEPT !.content = means] /\ dispatchPC' = "filter"
      /\ UNCHANGED <<aliases, registered, files, skills, changes, scanned, outcome>>
  BY DEF ResolveAlias, Outside, Registries, means, more, first
<1>6. message' \in AnyMessage
  BY <1>1, <1>4, <1>5 DEF AnyMessage
<1>. QED BY <1>5, <1>6 DEF WayOK, DispatchPC

\* A change of the registries.
LEMMA ChangeKept ==
  ASSUME WayOK,
         \/ \E a \in Alias : CmdAliasDel(a) \/ \E m \in Meaning : CmdAliasAdd(a, m) \/ ReloadAlias(a, m)
         \/ \E n \in Custom :
              CmdCommandsAdd(n) \/ CmdCommandsDel(n) \/ FilesChange(n) \/ ReloadCommand(n)
         \/ ClearCommands \/ ClearAliases
  PROVE  WayOK'
<1>1. /\ \/ changes' = changes + 1 /\ changes < MaxChange
         \/ changes' = changes
      /\ UNCHANGED <<scanned, dispatchPC, message, outcome>>
  BY DEF CmdAliasDel, CmdAliasAdd, CmdCommandsAdd, CmdCommandsDel, FilesChange, Change, Changes,
     ReloadAlias, ReloadCommand, ClearCommands, ClearAliases, OnTheWay
<1>2. changes' \in 0..MaxChange
  BY <1>1, DispatchAssumption DEF WayOK
<1>3. DOMAIN aliases' \subseteq Alias /\ aliases' \in [DOMAIN aliases' -> Meaning]
  <2>1. DOMAIN aliases \subseteq Alias /\ \A a \in DOMAIN aliases : aliases[a] \in Meaning
    BY DEF WayOK
  <2>2. ASSUME NEW a \in Alias, CmdAliasDel(a)
        PROVE  DOMAIN aliases' \subseteq Alias /\ aliases' \in [DOMAIN aliases' -> Meaning]
    <3>. HIDE DEF Alias, Meaning
    <3>. QED BY <2>1, <2>2 DEF CmdAliasDel
  <2>3. ASSUME NEW a \in Alias, NEW m \in Meaning, CmdAliasAdd(a, m) \/ ReloadAlias(a, m)
        PROVE  DOMAIN aliases' \subseteq Alias /\ aliases' \in [DOMAIN aliases' -> Meaning]
    <3>. HIDE DEF Alias, Meaning
    <3>. QED BY <2>1, <2>3 DEF CmdAliasAdd, ReloadAlias
  <2>4. ASSUME \/ ClearCommands
               \/ \E n \in Custom :
                    CmdCommandsAdd(n) \/ CmdCommandsDel(n) \/ FilesChange(n) \/ ReloadCommand(n)
        PROVE  DOMAIN aliases' \subseteq Alias /\ aliases' \in [DOMAIN aliases' -> Meaning]
    <3>1. aliases' = aliases
      BY <2>4 DEF CmdCommandsAdd, CmdCommandsDel, FilesChange, ReloadCommand, ClearCommands
    <3>. QED BY <3>1 DEF WayOK
  <2>5. ASSUME ClearAliases
        PROVE  DOMAIN aliases' \subseteq Alias /\ aliases' \in [DOMAIN aliases' -> Meaning]
    <3>1. aliases' = <<>> /\ DOMAIN <<>> = {}
      BY <2>5, EmptySeq DEF ClearAliases
    <3>. QED BY <3>1
  <2>. QED BY <2>2, <2>3, <2>4, <2>5
<1>4. registered' \subseteq Custom /\ files' \subseteq Custom /\ skills' \subseteq Custom
  <2>1. registered \subseteq Custom /\ files \subseteq Custom /\ skills \subseteq Custom
    BY DEF WayOK
  <2>2. ASSUME \/ ClearAliases
               \/ \E a \in Alias :
                    CmdAliasDel(a) \/ \E m \in Meaning : CmdAliasAdd(a, m) \/ ReloadAlias(a, m)
        PROVE  UNCHANGED <<registered, files, skills>>
    BY <2>2 DEF CmdAliasDel, CmdAliasAdd, ReloadAlias, ClearAliases
  <2>3. ASSUME NEW n \in Custom, CmdCommandsAdd(n) \/ CmdCommandsDel(n) \/ FilesChange(n)
        PROVE  registered' \subseteq Custom /\ files' \subseteq Custom /\ skills' \subseteq Custom
    BY <2>1, <2>3 DEF CmdCommandsAdd, CmdCommandsDel, FilesChange, SymDiff
  <2>4. ASSUME ClearCommands \/ \E n \in Custom : ReloadCommand(n)
        PROVE  registered' \subseteq Custom /\ files' \subseteq Custom /\ skills' \subseteq Custom
    BY <2>1, <2>4 DEF ClearCommands, ReloadCommand
  <2>. QED BY <2>1, <2>2, <2>3, <2>4
<1>. QED BY <1>1, <1>2, <1>3, <1>4 DEF WayOK

LEMMA WayStep == WayOK /\ [DispatchNext]_dispatchVars => WayOK'
<1>. SUFFICES ASSUME WayOK, [DispatchNext]_dispatchVars PROVE WayOK'
  OBVIOUS
<1>1. CASE UNCHANGED <<aliases, registered, files, skills, scanned, changes, dispatchPC, message, outcome>>
  BY <1>1 DEF WayOK
<1>2. CASE SendChunk
  <2>1. outcome' \in {outcome, Nothing}
    BY <1>2 DEF SendChunk
  <2>2. UNCHANGED <<aliases, registered, files, skills, scanned, changes, dispatchPC, message>>
    BY <1>2 DEF SendChunk, Registries
  <2>. QED BY <2>1, <2>2, SilenceType DEF WayOK
<1>3. ASSUME \/ TurnGoesOn \/ SplitMessage \/ (\E t \in Text : AgentAnswers(t)) \/ UNCHANGED dispatchVars
             \/ \E words : ReloadBannedWords(words)
             \/ \E list : ReloadDisabledCommands(list)
      PROVE  UNCHANGED <<aliases, registered, files, skills, scanned, changes, dispatchPC, message, outcome>>
  BY <1>3, Zenon DEF TurnGoesOn, SplitMessage, AgentAnswers, dispatchVars, Registries,
     ReloadBannedWords, ReloadDisabledCommands, OnTheWay
<1>4. \/ SendChunk
      \/ TurnGoesOn \/ SplitMessage \/ (\E t \in Text : AgentAnswers(t)) \/ UNCHANGED dispatchVars
      \/ \E words : ReloadBannedWords(words)
      \/ \E list : ReloadDisabledCommands(list)
      \/ ResolveAlias
      \/ \E m \in Message : Receive(m)
      \/ Filter \/ HandleCommand \/ ResolveCommand \/ ResolveSkill \/ AnswerPermission \/ StartTurn
      \/ \E a \in Alias : CmdAliasDel(a) \/ \E m \in Meaning : CmdAliasAdd(a, m) \/ ReloadAlias(a, m)
      \/ \E n \in Custom :
           CmdCommandsAdd(n) \/ CmdCommandsDel(n) \/ FilesChange(n) \/ ReloadCommand(n)
      \/ ClearCommands \/ ClearAliases
  BY Zenon DEF DispatchNext
<1>. QED BY <1>1, <1>2, <1>3, <1>4, WayKept, AliasKept, ChangeKept, Zenon

\* A list of the configuration becomes ids of commands, and words.
LEMMA DisabledAreIds ==
  ASSUME NEW list \in DisabledList
  PROVE  SetDisabledCommands(list) \subseteq BuiltinId \union Word
<1>1. \A w : MatchPrefix(w) # "" => MatchPrefix(w) \in BuiltinId
  BY MatchIsId
<1>2. "re" \in Word /\ "ship" \in Word /\ MatchPrefix("update") # ""
  BY UpdateIsUpgrade DEF Word
<1>3. ASSUME NEW w \in list
      PROVE  (IF MatchPrefix(w) = "" THEN w ELSE MatchPrefix(w)) \in BuiltinId \union Word
  <2>1. CASE w = "update"
    BY <1>1, <1>2, <2>1
  <2>2. CASE w # "update"
    <3>1. w \in Word
      BY <1>2, <1>3, <2>2 DEF DisabledList
    <3>2. CASE MatchPrefix(w) = ""
      BY <3>1, <3>2
    <3>3. CASE MatchPrefix(w) # ""
      BY <1>1, <3>3
    <3>. QED BY <3>2, <3>3
  <2>. QED BY <2>1, <2>2
<1>. QED BY <1>3 DEF SetDisabledCommands

LEMMA SettledStep == SettledOK /\ [DispatchNext]_dispatchVars => SettledOK'
<1>. SUFFICES ASSUME SettledOK, [DispatchNext]_dispatchVars PROVE SettledOK'
  OBVIOUS
<1>1. CASE UNCHANGED <<disabledCmds, bannedWords, reload>>
  BY <1>1 DEF SettledOK
<1>2. CASE ClearCommands \/ ClearAliases
  BY <1>2 DEF SettledOK, ClearCommands, ClearAliases, Settled
<1>3. ASSUME NEW words \in BannedList, ReloadBannedWords(words) PROVE SettledOK'
  BY <1>3 DEF SettledOK, ReloadBannedWords, BannedList, Word
<1>4. ASSUME NEW list \in DisabledList, ReloadDisabledCommands(list) PROVE SettledOK'
  BY <1>4, DisabledAreIds DEF SettledOK, ReloadDisabledCommands
<1>5. \/ UNCHANGED <<disabledCmds, bannedWords, reload>> \/ ClearCommands \/ ClearAliases
      \/ \E words \in BannedList : ReloadBannedWords(words)
      \/ \E list \in DisabledList : ReloadDisabledCommands(list)
  BY Zenon DEF DispatchNext, CmdAliasDel, CmdAliasAdd, CmdCommandsAdd, CmdCommandsDel, dispatchVars,
     FilesChange, Change, Receive, TurnGoesOn, ResolveAlias, Filter, HandleCommand, ResolveCommand,
     ResolveSkill, AnswerPermission, StartTurn, Outside, Settled, AgentAnswers, SplitMessage, SendChunk,
     ReloadAlias, ReloadCommand
<1>. QED BY <1>1, <1>2, <1>3, <1>4, <1>5

\* A text of the instance is a text that is not empty and not longer than the bound.
LEMMA TextIs ==
  \A t : t \in Text <=> t \in Seq(Char) /\ Len(t) \in 1..MaxAnswer
<1>1. ASSUME NEW t \in Text PROVE t \in Seq(Char) /\ Len(t) \in 1..MaxAnswer
  <2>1. PICK n \in 1..MaxAnswer : t \in [1..n -> Char]
    BY DEF Text
  <2>. QED BY <2>1, FunctionIsSeq, DispatchAssumption
<1>2. ASSUME NEW t \in Seq(Char), Len(t) \in 1..MaxAnswer PROVE t \in Text
  <2>1. t \in [1..Len(t) -> Char]
    BY LenProperties
  <2>. QED BY <1>2, <2>1 DEF Text
<1>. QED BY <1>1, <1>2

LEMMA PiecesStep ==
  ASSUME PiecesOK, AnswerInv, [DispatchNext]_dispatchVars
  PROVE  PiecesOK'
<1>1. CASE UNCHANGED Answering
  BY <1>1 DEF Answering, PiecesOK
<1>2. ASSUME NEW t \in Text, AgentAnswers(t) PROVE PiecesOK'
  <2>1. rest' = t /\ UNCHANGED <<pieces, unsent>>
    BY <1>2 DEF AgentAnswers
  <2>2. Len(t) <= MaxAnswer
    BY TextIs
  <2>. QED BY <2>1, <2>2 DEF PiecesOK
<1>3. CASE SplitMessage
  <2>. DEFINE end == IF Len(rest) <= MaxLen THEN Len(rest) ELSE Cut(rest)
              x == SubSeq(rest, 1, end)
  <2>1. /\ rest # <<>> /\ unsent' = Append(unsent, x) /\ rest' = SubSeq(rest, end + 1, Len(rest))
        /\ pieces' = pieces
    BY <1>3 DEF SplitMessage
  <2>2. rest \in Seq(Char) /\ Len(rest) \in 1..MaxAnswer /\ MaxAnswer \in Nat
    BY <2>1, EmptySeq, DispatchAssumption DEF AnswerInv, PiecesOK
  <2>3. end \in 1..Len(rest)
    BY <2>2, CutFits, DispatchAssumption
  <2>. HIDE DEF end
  <2>4. x \in Seq(Char) /\ Len(x) = end
    BY <2>2, <2>3, SubSeqProperties
  <2>5. Len(rest') <= MaxAnswer
    BY <2>1, <2>2, <2>3, SubSeqProperties
  <2>6. x \in Text
    <3>1. Len(x) \in 1..MaxAnswer
      BY <2>2, <2>3, <2>4
    <3>. HIDE DEF x
    <3>. QED BY <2>4, <3>1, TextIs
  <2>. HIDE DEF x
  <2>. QED BY <2>1, <2>5, <2>6, AppendProperties DEF PiecesOK
<1>4. CASE SendChunk
  <2>1. rest' = rest /\ unsent # <<>>
    BY <1>4 DEF SendChunk
  <2>2. \/ pieces' = Append(pieces, Head(unsent)) /\ unsent' = Tail(unsent)
        \/ pieces' = <<>> /\ unsent' = <<>>
    BY <1>4 DEF SendChunk
  <2>3. Head(unsent) \in Text /\ Tail(unsent) \in Seq(Text)
    BY <2>1, HeadTailProperties DEF PiecesOK
  <2>4. pieces' \in Seq(Text) /\ unsent' \in Seq(Text)
    <3>1. pieces \in Seq(Text) /\ Append(pieces, Head(unsent)) \in Seq(Text) /\ <<>> \in Seq(Text)
      BY <2>3, AppendProperties, EmptySeq DEF PiecesOK
    <3>. QED BY <2>2, <2>3, <3>1, Zenon
  <2>. QED BY <2>1, <2>4 DEF PiecesOK
<1>5. ASSUME DispatchNext PROVE \/ UNCHANGED Answering \/ SplitMessage \/ SendChunk
                                \/ \E t \in Text : AgentAnswers(t)
  BY <1>5, Zenon DEF DispatchNext, CmdAliasDel, CmdAliasAdd, CmdCommandsAdd, CmdCommandsDel,
     FilesChange, Change, Receive, TurnGoesOn, ResolveAlias, Filter, HandleCommand, ResolveCommand,
     ResolveSkill, AnswerPermission, StartTurn, Outside, ReloadAlias, ReloadCommand, ClearCommands,
     ClearAliases, ReloadBannedWords, ReloadDisabledCommands, OnTheWay
<1>6. UNCHANGED dispatchVars => UNCHANGED Answering
  BY DEF dispatchVars, Answering
<1>. QED BY <1>1, <1>2, <1>3, <1>4, <1>5, <1>6

\* Whatever is typed, and however the registries change meanwhile, the way of a message
\* keeps its types: DispatchTypeOK.
THEOREM DispatchTypeCorrect == DispatchSpec => []DispatchTypeOK
<1>1. ASSUME DispatchInit PROVE DispatchInv /\ AnswerInv /\ WayOK /\ SettledOK /\ PiecesOK
  <2>1. DispatchInv
    BY <1>1, InitDispatch
  <2>2. AnswerInv
    BY <1>1, InitAnswer
  <2>3. WayOK
    <3>1. DOMAIN aliases \subseteq Alias /\ aliases \in [DOMAIN aliases -> Meaning]
      <4>1. aliases = [a \in {[slash |-> FALSE, words |-> <<"allow">>]} |-> [slash |-> TRUE, words |-> <<"up">>]]
        BY <1>1, Zenon DEF DispatchInit
      <4>2. [slash |-> FALSE, words |-> <<"allow">>] \in Alias /\ [slash |-> TRUE, words |-> <<"up">>] \in Meaning
        BY DEF Alias, Meaning
      <4>. HIDE DEF Alias, Meaning
      <4>. QED BY <4>1, <4>2
    <3>2. /\ registered = {"stat"} /\ files = {} /\ skills = {"ship"} /\ scanned = {}
          /\ changes = 0 /\ dispatchPC = "idle" /\ message = Silence /\ outcome = Nothing
      BY <1>1, Zenon DEF DispatchInit
    <3>3. changes \in 0..MaxChange
      BY <3>2, DispatchAssumption
    <3>. QED BY <3>1, <3>2, <3>3, SilenceType DEF WayOK, Custom, DispatchPC
  <2>4. SettledOK
    <3>1. bannedWords \subseteq Word /\ reload = "none"
      BY <1>1 DEF DispatchInit, BannedList, Word
    <3>2. \E list \in DisabledList : disabledCmds = SetDisabledCommands(list)
      BY <1>1, Zenon DEF DispatchInit
    <3>. QED BY <3>1, <3>2, DisabledAreIds DEF SettledOK
  <2>5. PiecesOK
    <3>1. rest = <<>> /\ pieces = <<>> /\ unsent = <<>>
      BY <1>1, Zenon DEF DispatchInit
    <3>. QED BY <3>1, EmptySeq, DispatchAssumption DEF PiecesOK
  <2>. QED BY <2>1, <2>2, <2>3, <2>4, <2>5
<1>2. DispatchInv /\ AnswerInv /\ WayOK /\ SettledOK /\ PiecesOK /\ [DispatchNext]_dispatchVars
      => (DispatchInv /\ AnswerInv /\ WayOK /\ SettledOK /\ PiecesOK)'
  BY DispatchStep, AnswerStep, WayStep, SettledStep, PiecesStep
<1>3. ASSUME DispatchInv, AnswerInv, WayOK, SettledOK, PiecesOK PROVE DispatchTypeOK
  <2>1. aliases \in UNION {[names -> Meaning] : names \in SUBSET Alias}
    BY <1>3, Zenon DEF WayOK
  <2>2. message.content.slash \in BOOLEAN /\ message.content.words \in Seq(Word)
    BY <1>3, MessageWords
  <2>3. outcome.kind \in Kind /\ outcome.id \in {""} \union Custom \union {c.id : c \in Builtin}
    BY <1>3 DEF WayOK, AnyOutcome, OutcomeId, BuiltinId
  <2>4. disabledCmds \subseteq {c.id : c \in Builtin} \union Word /\ bannedWords \subseteq Word
    BY <1>3 DEF SettledOK, BuiltinId
  <2>5. /\ registered \subseteq Custom /\ files \subseteq Custom /\ skills \subseteq Custom
        /\ scanned \subseteq Custom /\ changes \in 0..MaxChange /\ dispatchPC \in DispatchPC
    BY <1>3 DEF WayOK
  <2>6. busy \in BOOLEAN /\ pending \in BOOLEAN /\ (pending => busy)
    BY <1>3 DEF DispatchInv
  <2>7. /\ reload \in {"none", "commands", "aliases", "disabled"}
        /\ standing.banned \subseteq bannedWords /\ standing.disabled \subseteq disabledCmds
    BY <1>3 DEF SettledOK, DispatchInv, StandingOK
  <2>8. answer \in Seq(Char) /\ rest \in Seq(Char) /\ pieces \in Seq(Text) /\ unsent \in Seq(Text)
    BY <1>3 DEF AnswerInv, PiecesOK
  <2>. QED BY <2>1, <2>2, <2>3, <2>4, <2>5, <2>6, <2>7, <2>8, Zenon DEF DispatchTypeOK, DispatchPC
<1>. QED BY <1>1, <1>2, <1>3, PTL DEF DispatchSpec

-----------------------------------------------------------------------------
(* Settings: what a command makes of the file it read.                     *)

LEMMA AppendedProvider ==
  ASSUME NEW s \in Seq(Provider), NEW p \in Provider
  PROVE  /\ Append(s, p) \in Seq(Provider) /\ ToSet(Append(s, p)) = ToSet(s) \union {p}
         /\ IsInjective(s) /\ p \notin ToSet(s) => IsInjective(Append(s, p))
<1>. DEFINE t == Append(s, p)
<1>1. /\ t \in Seq(Provider) /\ Len(s) \in Nat /\ DOMAIN s = 1..Len(s) /\ DOMAIN t = 1..(Len(s) + 1)
      /\ t[Len(s) + 1] = p /\ \A i \in DOMAIN s : t[i] = s[i]
  BY AppendProperties, LenProperties
<1>. HIDE DEF t
<1>2. \A i \in DOMAIN t : (i \in DOMAIN s /\ t[i] = s[i]) \/ (i = Len(s) + 1 /\ t[i] = p)
  BY <1>1
<1>3. \A i \in DOMAIN s : i \in DOMAIN t
  BY <1>1
<1>4. ToSet(t) = ToSet(s) \union {p}
  BY <1>1, <1>2, <1>3 DEF ToSet
<1>5. ASSUME IsInjective(s), p \notin ToSet(s) PROVE IsInjective(t)
  <2>1. \A i, j \in DOMAIN s : s[i] = s[j] => i = j
    BY <1>5 DEF IsInjective
  <2>2. \A i \in DOMAIN s : s[i] # p
    BY <1>5 DEF ToSet
  <2>3. ASSUME NEW i \in DOMAIN t, NEW j \in DOMAIN t, t[i] = t[j] PROVE i = j
    BY <1>2, <2>1, <2>2, <2>3
  <2>. QED BY <2>3 DEF IsInjective
<1>. QED BY <1>1, <1>4, <1>5 DEF t

Saving == {"add", "remove", "switch", "word add", "word delete", "other"}

\* What a command has to work with.
EditOK(c) ==
  /\ c.pc = "list" => c.op = "add"
  /\ c.pc = "set" => c.op \in {"add", "remove", "word add"}
  /\ c.pc \in {"save", "write"} => c.op \in Saving
  /\ c.op \in {"add", "remove"} => c.arg \in Provider
  /\ c.op = "switch" => c.arg \in Provider \union {NoName}
  /\ c.op \in {"word add", "word delete"} => c.arg \in SavedWord
  /\ c.op \in {"add", "remove", "switch"} \/ c.pc \in {"providers", "active"} => c.at = Home
  /\ IsInjective(c.read.providers)

\* The file is as before, without what the command removes.
LEMMA ChangedFile ==
  ASSUME NEW w \in Edit, EditOK(w), w.op \in Saving
  PROVE  /\ Changed(w) \in ConfigFile
         /\ Accepted(w) => IsInjective(Changed(w).providers)
         /\ Entries(w.read) \ Entries(Changed(w)) \subseteq {w.arg}
<1>0. w.read \in ConfigFile /\ w.read.providers \in Seq(Provider) /\ w.read.words \subseteq SavedWord
      /\ IsInjective(w.read.providers)
  BY DEF Edit, ConfigFile, EditOK
<1>1. CASE w.op = "add"
  <2>. DEFINE t == Append(w.read.providers, w.arg)
  <2>1. /\ t \in Seq(Provider) /\ ToSet(t) = ToSet(w.read.providers) \union {w.arg}
        /\ w.arg \notin ToSet(w.read.providers) => IsInjective(t)
    BY <1>0, <1>1, AppendedProvider DEF EditOK
  <2>2. Changed(w) = [w.read EXCEPT !.providers = t]
    BY <1>1 DEF Changed
  <2>. HIDE DEF t
  <2>3. Changed(w) \in ConfigFile /\ Changed(w).providers = t /\ Changed(w).words = w.read.words
    BY <1>0, <2>1, <2>2 DEF ConfigFile
  <2>4. Accepted(w) => w.arg \notin ToSet(w.read.providers)
    BY <1>1 DEF Accepted
  <2>. QED BY <2>1, <2>3, <2>4 DEF Entries
<1>2. CASE w.op = "remove"
  <2>. DEFINE t == Filtered(w.read.providers, Provider \ {w.arg})
  <2>1. t \in Seq(Provider) /\ ToSet(t) = ToSet(w.read.providers) \ {w.arg} /\ IsInjective(t)
    BY <1>0, FilteredList
  <2>2. Changed(w) = [w.read EXCEPT !.providers = t]
    BY <1>2 DEF Changed
  <2>. HIDE DEF t
  <2>3. Changed(w) \in ConfigFile /\ Changed(w).providers = t /\ Changed(w).words = w.read.words
    BY <1>0, <2>1, <2>2 DEF ConfigFile
  <2>. QED BY <2>1, <2>3 DEF Entries
<1>3. CASE w.op \in {"switch", "word add", "word delete", "other"}
  <2>1. /\ Changed(w) \in ConfigFile /\ Changed(w).providers = w.read.providers
        /\ w.read.words \ Changed(w).words \subseteq {w.arg}
    BY <1>0, <1>3 DEF Changed, ConfigFile, EditOK
  <2>. QED BY <1>0, <2>1 DEF Entries
<1>. QED BY <1>1, <1>2, <1>3 DEF Saving

-----------------------------------------------------------------------------
(* Settings: the two copies. A writer that is not outdated has read what   *)
(* the file says, because one command at a time has configMu and a call of *)
(* the other process outdates it. A command that runs alone since the last *)
(* load of its engine, while no call wrote, has memory and file as far as  *)
(* it got, and the other engines have what the file says.                  *)

Same(e) == memory.words[e] = file.words /\ (e = Home => memory.providers = file.providers)
CaughtUp(c) ==
  memory.words[c.at] = Changed(c).words /\ (c.at = Home => memory.providers = Changed(c).providers)

Progress(c) ==
  /\ c.pc \in {"list", "set"} => Same(c.at)
  /\ c.pc = "set" /\ c.op # "word add" => c.list = memory.providers
  /\ c.pc = "save" => CaughtUp([c EXCEPT !.read = file])
  /\ c.pc = "write" => CaughtUp(c)
  /\ c.pc \in {"write", "providers", "active", "clear", "load"} => c.read = file
  /\ c.pc \in {"active", "clear", "load"} /\ c.at = Home => memory.providers = file.providers
  /\ c.pc = "load" => memory.words[c.at] = {}

\* What an engine knows while command c runs.
Follows(c, e) ==
  IF e = c.at THEN Progress(c) ELSE Same(e) /\ (c.pc = "write" => c.read = file)

Idle(h) == handler[h].pc = "idle"
Resting == \A h \in Handler : Idle(h)

EditsOK ==
  /\ \A h \in Handler : EditOK(handler[h])
  /\ EditOK(cli)
LockHeld == \A h \in Handler : handler[h].pc = "write" <=> configMu = h
ReadsCurrent ==
  /\ \A h \in Handler : handler[h].pc = "write" /\ h \notin outdated => handler[h].read = file
  /\ cli.pc = "write" /\ Nobody \notin outdated => cli.read = file
AloneProgresses ==
  \A e \in clean, h \in Handler :
    ~Idle(h) => Follows(handler[h], e) /\ \A other \in Handler \ {h} : Idle(other)

SettingsInv ==
  SettingsTypeOK /\ EditsOK /\ LockHeld /\ ReadsCurrent /\ AloneProgresses /\ RestIsSaved

\* SavedStays of one step.
EntriesStay ==
  \A entry \in Entries(file) \ Entries(file') :
    \/ /\ cli.pc = "write" /\ cli'.pc = "idle"
       /\ cli.arg = entry \/ Nobody \in outdated
    \/ \E h \in Handler :
         /\ handler[h].pc = "write" /\ handler'[h].pc = "idle"
         /\ handler[h].arg = entry \/ h \in outdated

\* A command that does nothing.
LEMMA IdleEdit ==
  /\ IdleHandler \in Edit /\ EditOK(IdleHandler) /\ IdleHandler.pc = "idle"
  /\ IdleHandler.op = "none" /\ IdleHandler.list = <<>>
<1>1. <<>> \in Seq(Provider) /\ DOMAIN <<>> = {}
  BY EmptySeq
<1>2. IsInjective(<<>>)
  BY <1>1, Zenon DEF IsInjective
<1>. QED BY <1>1, <1>2, SettingsAssumption DEF IdleHandler, Edit, ConfigFile, Op, EditOK

\* The command of h becomes x.
LEMMA EditBecomes ==
  ASSUME handler \in [Handler -> Edit], NEW h \in Handler, NEW x \in Edit,
         handler' = [handler EXCEPT ![h] = x]
  PROVE  /\ handler' \in [Handler -> Edit]
         /\ \A j \in Handler : handler'[j] = IF j = h THEN x ELSE handler[j]
OBVIOUS

Memory == [providers : Seq(Provider), activeIdx : Nat, words : [Proj -> SUBSET SavedWord]]

\* A step that touches the copies of engine e only.
OnlyAt(e) ==
  /\ \A other \in Proj \ {e} : memory'.words[other] = memory.words[other]
  /\ e # Home => memory'.providers = memory.providers

\* Engine e gets words W.
LEMMA WordsAt ==
  ASSUME memory \in Memory, NEW e \in Proj, NEW W \in SUBSET SavedWord,
         memory' = [memory EXCEPT !.words[e] = W]
  PROVE  /\ memory' \in Memory /\ memory'.providers = memory.providers
         /\ memory'.words[e] = W /\ OnlyAt(e)
BY DEF Memory, OnlyAt

\* What an engine knows changes with the copies only.
LEMMA FollowsStays ==
  ASSUME UNCHANGED <<file, memory>>, NEW c, NEW e
  PROVE  Follows(c, e)' <=> Follows(c, e)
<1>1. \A p : Same(p)' <=> Same(p)
  BY DEF Same
<1>2. \A x : CaughtUp(x)' <=> CaughtUp(x)
  BY DEF CaughtUp
<1>. QED BY <1>1, <1>2, Zenon DEF Follows, Progress

LEMMA AloneStays ==
  ASSUME UNCHANGED <<file, memory, handler, clean>>, AloneProgresses
  PROVE  AloneProgresses'
<1>1. \A c, e : Follows(c, e)' <=> Follows(c, e)
  BY FollowsStays
<1>. QED BY <1>1, Zenon DEF AloneProgresses, Idle

\* A command begins: what it has done at its first step.
LEMMA BeginKept ==
  ASSUME SettingsInv, NEW h \in Handler, NEW x \in Edit, Begin(h, x), UNCHANGED file,
         memory' \in Memory, OnlyAt(x.at), EditOK(x), x.pc \notin {"idle", "write"},
         (x.at \in clean => Same(x.at)) /\ (x.at \in clean \/ x.op = "reload") => Progress(x)'
  PROVE  SettingsInv' /\ EntriesStay
<1>. USE DEF SettingsInv, SettingsTypeOK
<1>0. x.at \in Proj
  BY DEF Edit
<1>1. /\ handler[h].pc = "idle" /\ commands < MaxCommand /\ commands' = commands + 1
      /\ handler' = [handler EXCEPT ![h] = x]
      /\ clean' = IF \E other \in Handler \ {h} : ~Idle(other) THEN {}
                  ELSE clean \union {e \in {x.at} : x.op = "reload"}
      /\ UNCHANGED <<configMu, cli, calls, outdated>>
  BY DEF Begin, Idle
<1>2. /\ handler' \in [Handler -> Edit]
      /\ \A j \in Handler : handler'[j] = IF j = h THEN x ELSE handler[j]
  BY <1>1, EditBecomes
<1>3. clean' \subseteq Proj
  BY <1>0, <1>1
<1>4. SettingsTypeOK'
  BY <1>1, <1>2, <1>3, SettingsAssumption DEF Memory
<1>5. EditsOK' /\ LockHeld' /\ ReadsCurrent'
  BY <1>1, <1>2 DEF EditsOK, LockHeld, ReadsCurrent
<1>6. ASSUME NEW e \in clean'
      PROVE  /\ e \in clean \/ (e = x.at /\ x.op = "reload")
             /\ \A other \in Handler \ {h} : Idle(other)
  BY <1>1, <1>6
<1>7. ASSUME NEW e \in clean, \A other \in Handler \ {h} : Idle(other) PROVE Same(e)
  BY <1>1, <1>7 DEF RestIsSaved, Idle, Same
<1>8. ASSUME NEW e \in clean' PROVE Follows(x, e)' /\ \A other \in Handler \ {h} : Idle(other)'
  <2>1. \A other \in Handler \ {h} : Idle(other)'
    BY <1>2, <1>6 DEF Idle
  <2>2. CASE e = x.at
    <3>1. Progress(x)'
      BY <1>6, <1>7, <2>2
    <3>. QED BY <2>1, <2>2, <3>1 DEF Follows
  <2>3. CASE e # x.at
    <3>1. Same(e) /\ e \in Proj
      BY <1>6, <1>7, <2>3
    <3>2. Same(e)'
      BY <2>3, <3>1 DEF Same, OnlyAt
    <3>. QED BY <2>1, <2>3, <3>2 DEF Follows
  <2>. QED BY <2>2, <2>3
<1>9. AloneProgresses'
  BY <1>2, <1>8 DEF AloneProgresses, Idle
<1>10. RestIsSaved'
  BY <1>2 DEF RestIsSaved
<1>11. EntriesStay
  BY DEF EntriesStay
<1>. QED BY <1>4, <1>5, <1>9, <1>10, <1>11

\* A command goes on without the file.
LEMMA MiddleKept ==
  ASSUME SettingsInv, NEW h \in Handler, NEW c \in Edit, c = handler[h],
         NEW x \in Edit, handler' = [handler EXCEPT ![h] = x],
         c.pc \notin {"idle", "write"}, x.pc # "write", EditOK(x),
         memory' \in Memory, OnlyAt(c.at), x.pc # "idle" => x.at = c.at,
         UNCHANGED <<file, configMu, cli, commands, calls, outdated, clean>>,
         Progress(c) => IF x.pc = "idle" THEN Same(c.at)' ELSE Progress(x)'
  PROVE  SettingsInv' /\ EntriesStay
<1>. USE DEF SettingsInv, SettingsTypeOK
<1>2. /\ handler' \in [Handler -> Edit]
      /\ \A j \in Handler : handler'[j] = IF j = h THEN x ELSE handler[j]
  BY EditBecomes
<1>4. SettingsTypeOK'
  BY <1>2 DEF Memory
<1>5. EditsOK' /\ LockHeld' /\ ReadsCurrent'
  BY <1>2 DEF EditsOK, LockHeld, ReadsCurrent
<1>6. ASSUME NEW e \in clean
      PROVE  Follows(c, e) /\ \A other \in Handler \ {h} : Idle(other)
  BY <1>6, Zenon DEF AloneProgresses, Idle
<1>7. ASSUME NEW e \in clean PROVE IF x.pc = "idle" THEN Same(e)' ELSE Follows(x, e)'
  <2>1. CASE e = c.at
    <3>1. Progress(c)
      BY <1>6, <2>1 DEF Follows
    <3>2. CASE x.pc = "idle"
      BY <2>1, <3>1, <3>2
    <3>3. CASE x.pc # "idle"
      BY <2>1, <3>1, <3>3 DEF Follows
    <3>. QED BY <3>2, <3>3
  <2>2. CASE e # c.at
    <3>1. Same(e) /\ e \in Proj
      BY <1>6, <2>2 DEF Follows
    <3>2. Same(e)'
      BY <2>2, <3>1 DEF Same, OnlyAt
    <3>. QED BY <2>2, <3>2 DEF Follows
  <2>. QED BY <2>1, <2>2
<1>9. AloneProgresses'
  BY <1>2, <1>6, <1>7 DEF AloneProgresses, Idle
<1>10. RestIsSaved'
  <2>. SUFFICES ASSUME NEW e \in clean', \A j \in Handler : handler'[j].pc = "idle" PROVE Same(e)'
    BY DEF RestIsSaved, Same
  <2>1. x.pc = "idle"
    BY <1>2
  <2>. QED BY <1>7, <2>1
<1>11. EntriesStay
  BY DEF EntriesStay
<1>. QED BY <1>4, <1>5, <1>9, <1>10, <1>11

\* SetActiveProvider finds a first provider of that name, or none.
LEMMA IndexIsNat ==
  ASSUME NEW s \in Seq(Provider), NEW p
  PROVE  IndexOf(s, p) \in Nat
<1>1. DOMAIN s \subseteq Nat
  BY LenProperties
<1>. DEFINE First(i) == s[i] = p /\ \A j \in 1..(i - 1) : s[j] # p
<1>2. ASSUME p \in ToSet(s) PROVE \E i \in DOMAIN s : First(i)
  <2>. DEFINE T == {i \in DOMAIN s : s[i] = p}
  <2>1. T \subseteq Nat /\ T # {}
    BY <1>1, <1>2 DEF ToSet
  <2>. HIDE DEF T
  <2>2. PICK i \in T : \A j \in T : i <= j
    BY <2>1, NatLeast
  <2>3. i \in DOMAIN s /\ s[i] = p /\ i \in 1..Len(s) /\ Len(s) \in Nat /\ DOMAIN s = 1..Len(s)
    BY LenProperties DEF T
  <2>4. ASSUME NEW j \in 1..(i - 1), s[j] = p PROVE FALSE
    <3>1. j \in T
      BY <2>3, <2>4 DEF T
    <3>. QED BY <2>2, <2>3, <2>4, <3>1
  <2>. QED BY <2>3, <2>4
<1>3. CASE p \in ToSet(s)
  <2>1. IndexOf(s, p) = CHOOSE i \in DOMAIN s : First(i)
    BY <1>3 DEF IndexOf
  <2>. HIDE DEF First
  <2>2. IndexOf(s, p) \in DOMAIN s
    BY <1>2, <1>3, <2>1
  <2>. QED BY <1>1, <2>2
<1>. QED BY <1>3 DEF IndexOf

LEMMA ProviderCommandBegins ==
  ASSUME SettingsInv, NEW h \in Handler, NEW p \in Provider, ProviderAdd(h, p) \/ ProviderRemove(h, p)
  PROVE  SettingsInv' /\ EntriesStay
<1>. USE DEF SettingsInv, SettingsTypeOK
<1>1. PICK x \in Edit : /\ Begin(h, x) /\ EditOK(x) /\ x.arg = p
                        /\ \/ x.pc = "list" /\ x.op = "add"
                           \/ x.pc = "set" /\ x.op = "remove" /\ x.list = memory.providers
  <2>1. CASE ProviderAdd(h, p)
    <3>. DEFINE x == [IdleHandler EXCEPT !.pc = "list", !.op = "add", !.arg = p]
    <3>1. x \in Edit /\ EditOK(x) /\ x.arg = p /\ x.pc = "list" /\ x.op = "add"
      BY IdleEdit DEF Edit, Op, EditOK, IdleHandler
    <3>2. Begin(h, x)
      BY <2>1 DEF ProviderAdd
    <3>. HIDE DEF x
    <3>. QED BY <3>1, <3>2
  <2>2. CASE ProviderRemove(h, p)
    <3>. DEFINE x == [IdleHandler EXCEPT !.pc = "set", !.op = "remove", !.arg = p,
                                         !.list = memory.providers]
    <3>1. /\ x \in Edit /\ EditOK(x) /\ x.arg = p
          /\ x.pc = "set" /\ x.op = "remove" /\ x.list = memory.providers
      BY IdleEdit DEF Edit, Op, EditOK, IdleHandler
    <3>2. Begin(h, x)
      BY <2>2 DEF ProviderRemove
    <3>. HIDE DEF x
    <3>. QED BY <3>1, <3>2
  <2>. QED BY <2>1, <2>2
<1>2. UNCHANGED <<file, memory>>
  BY DEF ProviderAdd, ProviderRemove
<1>3. (x.at \in clean => Same(x.at)) /\ (x.at \in clean \/ x.op = "reload") => Progress(x)'
  BY <1>1, <1>2 DEF Progress, Same, EditOK
<1>4. memory' \in Memory /\ OnlyAt(x.at)
  BY <1>2 DEF Memory, OnlyAt
<1>. QED BY <1>1, <1>2, <1>3, <1>4, BeginKept

LEMMA WordCommandBegins ==
  ASSUME SettingsInv, NEW h \in Handler, NEW e \in Proj,
         \/ \E n \in Name : CommandsAdd(h, e, n) \/ AliasAdd(h, e, n)
         \/ \E w \in SavedWord : WordDelete(h, e, w)
  PROVE  SettingsInv' /\ EntriesStay
<1>. USE DEF SettingsInv, SettingsTypeOK
<1>1. PICK x \in Edit :
        /\ Begin(h, x) /\ EditOK(x) /\ x.arg \in SavedWord /\ x.at = e
        /\ \/ x.pc = "set" /\ x.op = "word add" /\ memory' = memory
           \/ x.pc = "save" /\ x.op = "word add" /\ memory' = [memory EXCEPT !.words[e] = @ \union {x.arg}]
           \/ x.pc = "save" /\ x.op = "word delete" /\ memory' = [memory EXCEPT !.words[e] = @ \ {x.arg}]
  <2>1. ASSUME NEW n \in Name, CommandsAdd(h, e, n)
        PROVE  \E x \in Edit : /\ Begin(h, x) /\ EditOK(x) /\ x.arg \in SavedWord /\ x.at = e
                               /\ x.pc = "set" /\ x.op = "word add" /\ memory' = memory
    <3>. DEFINE x == [IdleHandler EXCEPT !.pc = "set", !.op = "word add", !.at = e, !.arg = <<"command", n>>]
    <3>0. <<"command", n>> \in SavedWord
      BY <2>1 DEF SavedWord
    <3>1. /\ x \in Edit /\ EditOK(x) /\ x.at = e /\ x.arg \in SavedWord /\ x.pc = "set" /\ x.op = "word add"
      BY <3>0, IdleEdit DEF Edit, Op, EditOK, IdleHandler, Saving
    <3>2. Begin(h, x) /\ memory' = memory
      BY <2>1 DEF CommandsAdd
    <3>. HIDE DEF x
    <3>. QED BY <3>1, <3>2
  <2>2. ASSUME NEW n \in Name, AliasAdd(h, e, n)
        PROVE  \E x \in Edit : /\ Begin(h, x) /\ EditOK(x) /\ x.arg \in SavedWord /\ x.at = e
                               /\ x.pc = "save" /\ x.op = "word add"
                               /\ memory' = [memory EXCEPT !.words[e] = @ \union {x.arg}]
    <3>. DEFINE x == [IdleHandler EXCEPT !.pc = "save", !.op = "word add", !.at = e, !.arg = <<"alias", n>>]
    <3>0. <<"alias", n>> \in SavedWord
      BY <2>2 DEF SavedWord
    <3>1. /\ x \in Edit /\ EditOK(x) /\ x.at = e /\ x.arg \in SavedWord /\ x.pc = "save" /\ x.op = "word add"
          /\ x.arg = <<"alias", n>>
      BY <3>0, IdleEdit DEF Edit, Op, EditOK, IdleHandler, Saving
    <3>2. Begin(h, x) /\ memory' = [memory EXCEPT !.words[e] = @ \union {<<"alias", n>>}]
      BY <2>2 DEF AliasAdd
    <3>. HIDE DEF x
    <3>. QED BY <3>1, <3>2
  <2>3. ASSUME NEW w \in SavedWord, WordDelete(h, e, w)
        PROVE  \E x \in Edit : /\ Begin(h, x) /\ EditOK(x) /\ x.arg \in SavedWord /\ x.at = e
                               /\ x.pc = "save" /\ x.op = "word delete"
                               /\ memory' = [memory EXCEPT !.words[e] = @ \ {x.arg}]
    <3>. DEFINE x == [IdleHandler EXCEPT !.pc = "save", !.op = "word delete", !.at = e, !.arg = w]
    <3>1. /\ x \in Edit /\ EditOK(x) /\ x.at = e /\ x.arg = w /\ x.pc = "save" /\ x.op = "word delete"
      BY <2>3, IdleEdit DEF Edit, Op, EditOK, IdleHandler, Saving
    <3>2. Begin(h, x) /\ memory' = [memory EXCEPT !.words[e] = @ \ {w}]
      BY <2>3 DEF WordDelete
    <3>. HIDE DEF x
    <3>. QED BY <2>3, <3>1, <3>2
  <2>. QED BY <2>1, <2>2, <2>3
<1>2. UNCHANGED file
  BY DEF CommandsAdd, AliasAdd, WordDelete
<1>3. /\ memory' \in Memory /\ memory'.providers = memory.providers /\ OnlyAt(e)
      /\ x.pc = "save" /\ x.op = "word add" => memory'.words[e] = memory.words[e] \union {x.arg}
      /\ x.pc = "save" /\ x.op = "word delete" => memory'.words[e] = memory.words[e] \ {x.arg}
      /\ x.pc = "set" => memory' = memory
  <2>0. memory \in Memory /\ memory.words[e] \in SUBSET SavedWord
    BY DEF Memory
  <2>1. CASE x.pc = "set"
    BY <1>1, <2>0, <2>1 DEF OnlyAt
  <2>2. CASE x.op = "word add" /\ x.pc = "save"
    <3>1. /\ memory' = [memory EXCEPT !.words[e] = memory.words[e] \union {x.arg}]
          /\ memory.words[e] \union {x.arg} \in SUBSET SavedWord
      BY <1>1, <2>0, <2>2
    <3>. QED BY <2>0, <2>2, <3>1, WordsAt
  <2>3. CASE x.op = "word delete" /\ x.pc = "save"
    <3>1. /\ memory' = [memory EXCEPT !.words[e] = memory.words[e] \ {x.arg}]
          /\ memory.words[e] \ {x.arg} \in SUBSET SavedWord
      BY <1>1, <2>0, <2>3
    <3>. QED BY <2>0, <2>3, <3>1, WordsAt
  <2>. QED BY <1>1, <2>1, <2>2, <2>3
<1>4. ASSUME Same(e) PROVE Progress(x)'
  <2>1. CASE x.pc = "set"
    BY <1>1, <1>2, <1>3, <1>4, <2>1 DEF Progress, Same
  <2>2. CASE x.pc = "save"
    <3>1. PICK y \in Edit : y = [x EXCEPT !.read = file] /\ y.op = x.op /\ y.at = e
                            /\ y.arg = x.arg /\ y.read = file
      <4>1. [x EXCEPT !.read = file] \in Edit
        BY DEF Edit
      <4>. QED BY <1>1, <4>1 DEF Edit
    <3>2. Changed(y).providers = file.providers /\ Changed(y).words = memory'.words[e]
      BY <1>1, <1>3, <1>4, <2>2, <3>1 DEF Changed, Same, ConfigFile
    <3>3. CaughtUp(y)'
      BY <1>2, <1>3, <1>4, <3>1, <3>2 DEF CaughtUp, Same
    <3>. QED BY <1>2, <2>2, <3>1, <3>3 DEF Progress
  <2>. QED BY <1>1, <2>1, <2>2
<1>5. x.op # "reload" /\ x.pc \notin {"idle", "write"} /\ x.at = e
  BY <1>1
<1>. QED BY <1>1, <1>2, <1>3, <1>4, <1>5, BeginKept

LEMMA OtherCommandBegins ==
  ASSUME SettingsInv, NEW h \in Handler,
         \/ \E p \in Provider \union {NoName} : SwitchProvider(h, p)
         \/ \E e \in Proj : SaveOther(h, e)
  PROVE  SettingsInv' /\ EntriesStay
<1>. USE DEF SettingsInv, SettingsTypeOK
<1>1. PICK x \in Edit :
        /\ Begin(h, x) /\ EditOK(x) /\ x.pc = "save" /\ x.op \in {"switch", "other"}
        /\ \/ memory' = memory
           \/ \E p : memory' = [memory EXCEPT !.activeIdx = IndexOf(memory.providers, p)]
  <2>1. ASSUME NEW p \in Provider \union {NoName}, SwitchProvider(h, p)
        PROVE  \E x \in Edit : /\ Begin(h, x) /\ EditOK(x) /\ x.pc = "save" /\ x.op = "switch"
                               /\ memory' = [memory EXCEPT !.activeIdx = IndexOf(memory.providers, p)]
    <3>. DEFINE x == [IdleHandler EXCEPT !.pc = "save", !.op = "switch", !.arg = p]
    <3>1. /\ x \in Edit /\ EditOK(x) /\ x.pc = "save" /\ x.op = "switch"
      BY <2>1, IdleEdit DEF Edit, Op, EditOK, IdleHandler, Saving
    <3>2. Begin(h, x) /\ memory' = [memory EXCEPT !.activeIdx = IndexOf(memory.providers, p)]
      BY <2>1 DEF SwitchProvider
    <3>. HIDE DEF x
    <3>. QED BY <3>1, <3>2
  <2>2. ASSUME NEW e \in Proj, SaveOther(h, e)
        PROVE  \E x \in Edit : /\ Begin(h, x) /\ EditOK(x) /\ x.pc = "save" /\ x.op = "other"
                               /\ memory' = memory
    <3>. DEFINE x == [IdleHandler EXCEPT !.pc = "save", !.op = "other", !.at = e]
    <3>1. /\ x \in Edit /\ EditOK(x) /\ x.pc = "save" /\ x.op = "other"
      BY IdleEdit DEF Edit, Op, EditOK, IdleHandler, Saving
    <3>2. Begin(h, x) /\ memory' = memory
      BY <2>2 DEF SaveOther
    <3>. HIDE DEF x
    <3>. QED BY <3>1, <3>2
  <2>. QED BY <2>1, <2>2
<1>2. UNCHANGED file
  BY DEF SwitchProvider, SaveOther
<1>3. memory' \in Memory /\ memory'.providers = memory.providers /\ memory'.words = memory.words
  <2>1. \A p : IndexOf(memory.providers, p) \in Nat
    BY IndexIsNat
  <2>. QED BY <1>1, <2>1 DEF Memory
<1>4. ASSUME Same(x.at) PROVE Progress(x)'
  <2>1. PICK y \in Edit : y = [x EXCEPT !.read = file] /\ y.op = x.op /\ y.at = x.at
                          /\ y.arg = x.arg /\ y.read = file
    <3>1. [x EXCEPT !.read = file] \in Edit
      BY DEF Edit
    <3>. QED BY <1>1, <3>1 DEF Edit
  <2>2. Changed(y).providers = file.providers /\ Changed(y).words = file.words
    BY <1>1, <2>1 DEF Changed, ConfigFile
  <2>3. CaughtUp(y)'
    BY <1>2, <1>3, <1>4, <2>1, <2>2 DEF CaughtUp, Same
  <2>. QED BY <1>1, <1>2, <2>1, <2>3 DEF Progress
<1>5. x.op # "reload" /\ x.pc \notin {"idle", "write"} /\ OnlyAt(x.at)
  BY <1>1, <1>3 DEF OnlyAt
<1>. QED BY <1>1, <1>2, <1>3, <1>4, <1>5, BeginKept

LEMMA ReloadBegins ==
  ASSUME SettingsInv, NEW h \in Handler, NEW e \in Proj, Reload(h, e)
  PROVE  SettingsInv' /\ EntriesStay
<1>. USE DEF SettingsInv, SettingsTypeOK
<1>1. PICK x \in Edit : /\ Begin(h, x) /\ EditOK(x) /\ x.pc \in {"providers", "clear"}
                        /\ x.pc = "clear" => x.at # Home
                        /\ x.op = "reload" /\ x.read = file
  <2>. DEFINE pc == IF e = Home THEN "providers" ELSE "clear"
              x == [IdleHandler EXCEPT !.pc = pc, !.op = "reload", !.at = e, !.read = file]
  <2>0. pc \in {"providers", "clear"} /\ (pc = "clear" <=> e # Home)
    OBVIOUS
  <2>. HIDE DEF pc
  <2>1. /\ x \in Edit /\ EditOK(x) /\ x.pc \in {"providers", "clear"}
        /\ x.pc = "clear" => x.at # Home
        /\ x.op = "reload" /\ x.read = file
    BY <2>0, IdleEdit DEF Edit, Op, EditOK, IdleHandler
  <2>2. Begin(h, x)
    BY DEF Reload, pc
  <2>. HIDE DEF x
  <2>. QED BY <2>1, <2>2
<1>2. UNCHANGED <<file, memory>>
  BY DEF Reload
<1>3. Progress(x)'
  BY <1>1, <1>2 DEF Progress
<1>4. memory' \in Memory /\ OnlyAt(x.at)
  BY <1>2 DEF Memory, OnlyAt
<1>. QED BY <1>1, <1>2, <1>3, <1>4, BeginKept

\* The steps of a command before it saves.
LEMMA CommandGoesOn ==
  ASSUME SettingsInv, NEW h \in Handler,
         ProviderAddList(h) \/ SetProviders(h) \/ AddCommand(h)
  PROVE  SettingsInv' /\ EntriesStay
<1>. USE DEF SettingsInv, SettingsTypeOK
<1>0. PICK c \in Edit : c = handler[h] /\ EditOK(c)
  BY DEF EditsOK
<1>1. CASE ProviderAddList(h)
  <2>1. PICK x \in Edit : /\ x = [c EXCEPT !.pc = "set", !.list = memory.providers]
                          /\ x.pc = "set" /\ x.op = c.op /\ x.list = memory.providers
                          /\ x.arg = c.arg /\ x.read = c.read /\ x.at = c.at
    <3>. DEFINE x == [c EXCEPT !.pc = "set", !.list = memory.providers]
    <3>1. /\ x \in Edit /\ x.pc = "set" /\ x.op = c.op /\ x.list = memory.providers
          /\ x.arg = c.arg /\ x.read = c.read /\ x.at = c.at
      BY <1>0 DEF Edit
    <3>. QED BY <3>1, Zenon
  <2>2. c.pc = "list" /\ handler' = [handler EXCEPT ![h] = x]
        /\ UNCHANGED <<file, memory, configMu, cli, commands, calls, outdated, clean>>
    BY <1>0, <1>1, <2>1 DEF ProviderAddList
  <2>3. EditOK(x)
    BY <1>0, <2>1, <2>2 DEF EditOK
  <2>4. Progress(c) => Progress(x)'
    BY <2>1, <2>2 DEF Progress, Same
  <2>5. memory' \in Memory /\ OnlyAt(c.at)
    BY <2>2 DEF Memory, OnlyAt
  <2>. QED BY <1>0, <2>1, <2>2, <2>3, <2>4, <2>5, MiddleKept
<1>2. CASE SetProviders(h)
  <2>. DEFINE new == IF c.op = "add" THEN Append(c.list, c.arg)
                                     ELSE Filtered(c.list, Provider \ {c.arg})
  <2>1. PICK x \in Edit : /\ x = [c EXCEPT !.pc = "save", !.list = <<>>]
                          /\ x.pc = "save" /\ x.op = c.op /\ x.arg = c.arg /\ x.read = c.read /\ x.at = c.at
    <3>. DEFINE x == [c EXCEPT !.pc = "save", !.list = <<>>]
    <3>1. x \in Edit /\ x.pc = "save" /\ x.op = c.op /\ x.arg = c.arg /\ x.read = c.read /\ x.at = c.at
      BY <1>0, EmptySeq DEF Edit
    <3>. QED BY <3>1, Zenon
  <2>2. /\ c.pc = "set" /\ c.op \in {"add", "remove"} /\ handler' = [handler EXCEPT ![h] = x]
        /\ memory' = [memory EXCEPT !.providers = new]
        /\ UNCHANGED <<file, configMu, cli, commands, calls, outdated, clean>>
    BY <1>0, <1>2, <2>1 DEF SetProviders
  <2>3. PICK y \in Edit : /\ y = [x EXCEPT !.read = file]
                          /\ y.op = c.op /\ y.arg = c.arg /\ y.read = file /\ y.at = c.at
    <3>. DEFINE y == [x EXCEPT !.read = file]
    <3>1. y \in Edit /\ y.op = c.op /\ y.arg = c.arg /\ y.read = file /\ y.at = c.at
      BY <2>1 DEF Edit
    <3>. QED BY <3>1, Zenon
  <2>4. EditOK(x)
    BY <1>0, <2>1, <2>2 DEF EditOK, Saving
  <2>5. new \in Seq(Provider)
    <3>1. c.list \in Seq(Provider) /\ c.arg \in Provider
      BY <1>0, <2>2 DEF Edit, EditOK
    <3>2. Append(c.list, c.arg) \in Seq(Provider)
      BY <3>1, AppendedProvider
    <3>3. Filtered(c.list, Provider \ {c.arg}) \in Seq(Provider)
      BY <3>1, FilteredList
    <3>. QED BY <3>2, <3>3
  <2>6. memory' \in Memory /\ memory'.providers = new /\ memory'.words = memory.words
        /\ OnlyAt(c.at) /\ c.at = Home
    <3>1. c.at = Home
      BY <1>0, <2>2 DEF EditOK
    <3>. HIDE DEF new
    <3>. QED BY <2>2, <2>5, <3>1 DEF Memory, OnlyAt
  <2>7. ASSUME Progress(c) PROVE Progress(x)'
    <3>1. Same(c.at) /\ c.list = file.providers
      BY <2>2, <2>6, <2>7 DEF Progress, Same
    <3>2. Changed(y) = [file EXCEPT !.providers = new]
      <4>1. CASE c.op = "add"
        <5>1. Changed(y) = [y.read EXCEPT !.providers = Append(y.read.providers, y.arg)]
          BY <2>3, <4>1 DEF Changed
        <5>2. new = Append(y.read.providers, y.arg)
          BY <2>3, <3>1, <4>1
        <5>. HIDE DEF new
        <5>. QED BY <2>3, <5>1, <5>2
      <4>2. CASE c.op = "remove"
        <5>1. Changed(y) = [y.read EXCEPT !.providers = Filtered(y.read.providers, Provider \ {y.arg})]
          BY <2>3, <4>2 DEF Changed
        <5>2. new = Filtered(y.read.providers, Provider \ {y.arg})
          BY <2>3, <3>1, <4>2
        <5>. HIDE DEF new
        <5>. QED BY <2>3, <5>1, <5>2
      <4>. QED BY <2>2, <4>1, <4>2
    <3>3. Changed(y).providers = new /\ Changed(y).words = file.words
      <4>. HIDE DEF new
      <4>. QED BY <3>2 DEF ConfigFile
    <3>4. CaughtUp(y)'
      BY <2>2, <2>3, <2>6, <3>1, <3>3 DEF CaughtUp, Same
    <3>. QED BY <2>1, <2>2, <2>3, <3>4 DEF Progress
  <2>. QED BY <1>0, <2>1, <2>2, <2>4, <2>6, <2>7, MiddleKept
<1>3. CASE AddCommand(h)
  <2>1. PICK x \in Edit : /\ x = [c EXCEPT !.pc = "save"]
                          /\ x.pc = "save" /\ x.op = c.op /\ x.arg = c.arg /\ x.read = c.read /\ x.at = c.at
    <3>. DEFINE x == [c EXCEPT !.pc = "save"]
    <3>1. x \in Edit /\ x.pc = "save" /\ x.op = c.op /\ x.arg = c.arg /\ x.read = c.read /\ x.at = c.at
      BY <1>0 DEF Edit
    <3>. QED BY <3>1, Zenon
  <2>2. /\ c.pc = "set" /\ c.op = "word add" /\ handler' = [handler EXCEPT ![h] = x]
        /\ memory' = [memory EXCEPT !.words[c.at] = @ \union {c.arg}]
        /\ UNCHANGED <<file, configMu, cli, commands, calls, outdated, clean>>
    BY <1>0, <1>3, <2>1 DEF AddCommand
  <2>3. PICK y \in Edit : /\ y = [x EXCEPT !.read = file]
                          /\ y.op = c.op /\ y.arg = c.arg /\ y.read = file /\ y.at = c.at
    <3>. DEFINE y == [x EXCEPT !.read = file]
    <3>1. y \in Edit /\ y.op = c.op /\ y.arg = c.arg /\ y.read = file /\ y.at = c.at
      BY <2>1 DEF Edit
    <3>. QED BY <3>1, Zenon
  <2>4. EditOK(x)
    BY <1>0, <2>1, <2>2 DEF EditOK, Saving
  <2>5. c.arg \in SavedWord
    BY <1>0, <2>2 DEF EditOK
  <2>6. /\ memory' \in Memory /\ memory'.providers = memory.providers
        /\ memory'.words[c.at] = memory.words[c.at] \union {c.arg} /\ OnlyAt(c.at)
    <3>. DEFINE W == memory.words[c.at] \union {c.arg}
    <3>1. memory \in Memory /\ c.at \in Proj /\ W \in SUBSET SavedWord
      BY <2>5 DEF Memory, Edit
    <3>2. memory' = [memory EXCEPT !.words[c.at] = W]
      BY <2>2, <3>1
    <3>3. W = memory.words[c.at] \union {c.arg}
      OBVIOUS
    <3>. HIDE DEF W
    <3>4. /\ memory' \in Memory /\ memory'.providers = memory.providers
          /\ memory'.words[c.at] = W /\ OnlyAt(c.at)
      BY <3>1, <3>2, WordsAt, Zenon
    <3>. QED BY <3>3, <3>4
  <2>7. ASSUME Progress(c) PROVE Progress(x)'
    <3>1. Same(c.at)
      BY <2>2, <2>7 DEF Progress
    <3>2. Changed(y).providers = file.providers /\ Changed(y).words = file.words \union {c.arg}
      BY <2>2, <2>3 DEF Changed, ConfigFile
    <3>3. CaughtUp(y)'
      BY <2>2, <2>3, <2>6, <3>1, <3>2 DEF CaughtUp, Same
    <3>. QED BY <2>1, <2>2, <2>3, <3>3 DEF Progress
  <2>. QED BY <1>0, <2>1, <2>2, <2>4, <2>6, <2>7, MiddleKept
<1>. QED BY <1>1, <1>2, <1>3

\* The steps of a reload.
LEMMA ReloadGoesOn ==
  ASSUME SettingsInv, NEW h \in Handler,
         ReloadProviders(h) \/ ReloadActive(h) \/ ClearWords(h) \/ LoadWords(h)
  PROVE  SettingsInv' /\ EntriesStay
<1>. USE DEF SettingsInv, SettingsTypeOK
<1>0. PICK c \in Edit : c = handler[h] /\ EditOK(c)
  BY DEF EditsOK
<1>1. c.read \in ConfigFile /\ c.read.providers \in Seq(Provider) /\ c.read.words \subseteq SavedWord
  BY <1>0 DEF Edit, ConfigFile
<1>2. /\ c.pc \in {"providers", "active", "clear", "load"}
      /\ UNCHANGED <<file, configMu, cli, commands, calls, outdated, clean>>
  BY <1>0 DEF ReloadProviders, ReloadActive, ClearWords, LoadWords
<1>3. CASE ~LoadWords(h)
  <2>1. PICK pc \in {"active", "clear", "load"} :
          /\ handler' = [handler EXCEPT ![h].pc = pc]
          /\ pc = "active" => /\ c.pc = "providers"
                              /\ memory' = [memory EXCEPT !.providers = c.read.providers]
          /\ pc = "clear" => /\ c.pc = "active"
                             /\ \E i \in Nat : memory' = [memory EXCEPT !.activeIdx = i]
          /\ pc = "load" => c.pc = "clear" /\ memory' = [memory EXCEPT !.words[c.at] = {}]
    <3>1. CASE ReloadProviders(h)
      BY <1>0, <3>1 DEF ReloadProviders
    <3>2. CASE ReloadActive(h)
      <4>. DEFINE i == IndexOf(memory.providers, handler[h].read.active)
                  new == IF i = 0 THEN memory.activeIdx ELSE i
      <4>1. i \in Nat /\ memory.activeIdx \in Nat
        BY IndexIsNat
      <4>2. new \in Nat /\ memory' = [memory EXCEPT !.activeIdx = new]
        BY <3>2, <4>1 DEF ReloadActive
      <4>. HIDE DEF new
      <4>. QED BY <1>0, <3>2, <4>2 DEF ReloadActive
    <3>3. CASE ClearWords(h)
      BY <1>0, <3>3 DEF ClearWords
    <3>. QED BY <1>3, <3>1, <3>2, <3>3
  <2>2. PICK x \in Edit : /\ x = [c EXCEPT !.pc = pc]
                          /\ x.pc = pc /\ x.op = c.op /\ x.arg = c.arg /\ x.read = c.read /\ x.at = c.at
    <3>. DEFINE x == [c EXCEPT !.pc = pc]
    <3>1. x \in Edit /\ x.pc = pc /\ x.op = c.op /\ x.arg = c.arg /\ x.read = c.read /\ x.at = c.at
      BY <1>0 DEF Edit
    <3>. QED BY <3>1, Zenon
  <2>3. handler' = [handler EXCEPT ![h] = x] /\ EditOK(x)
    BY <1>0, <2>1, <2>2 DEF EditOK
  <2>4. /\ memory' \in Memory /\ OnlyAt(c.at)
        /\ pc = "active" => c.at = Home /\ memory'.providers = c.read.providers
        /\ pc # "active" => memory'.providers = memory.providers
        /\ pc = "load" => memory'.words[c.at] = {}
    <3>0. memory \in Memory /\ c.at \in Proj
      BY DEF Memory, Edit
    <3>1. CASE pc = "active"
      BY <1>0, <1>1, <2>1, <3>0, <3>1 DEF Memory, OnlyAt, EditOK
    <3>2. CASE pc = "clear"
      BY <2>1, <3>0, <3>2 DEF Memory, OnlyAt
    <3>3. CASE pc = "load"
      <4>1. memory' = [memory EXCEPT !.words[c.at] = {}] /\ {} \in SUBSET SavedWord
        BY <2>1, <3>3
      <4>2. /\ memory' \in Memory /\ memory'.providers = memory.providers
            /\ memory'.words[c.at] = {} /\ OnlyAt(c.at)
        BY <3>0, <4>1, WordsAt, Zenon
      <4>. QED BY <3>3, <4>2
    <3>. QED BY <3>1, <3>2, <3>3
  <2>5. ASSUME Progress(c) PROVE Progress(x)'
    BY <1>2, <2>1, <2>2, <2>4, <2>5 DEF Progress
  <2>. QED BY <1>0, <1>2, <2>2, <2>3, <2>4, <2>5, MiddleKept
<1>4. CASE LoadWords(h)
  <2>1. /\ c.pc = "load" /\ handler' = [handler EXCEPT ![h] = IdleHandler]
        /\ memory' = [memory EXCEPT !.words[c.at] = @ \union c.read.words]
    BY <1>0, <1>4 DEF LoadWords
  <2>2. /\ memory' \in Memory /\ OnlyAt(c.at) /\ memory'.providers = memory.providers
        /\ memory'.words[c.at] = memory.words[c.at] \union c.read.words
    <3>. DEFINE W == memory.words[c.at] \union c.read.words
    <3>1. memory \in Memory /\ c.at \in Proj /\ W \in SUBSET SavedWord
      BY <1>1 DEF Memory, Edit
    <3>2. memory' = [memory EXCEPT !.words[c.at] = W]
      BY <2>1, <3>1
    <3>3. W = memory.words[c.at] \union c.read.words
      OBVIOUS
    <3>. HIDE DEF W
    <3>4. /\ memory' \in Memory /\ memory'.providers = memory.providers
          /\ memory'.words[c.at] = W /\ OnlyAt(c.at)
      BY <3>1, <3>2, WordsAt, Zenon
    <3>. QED BY <3>3, <3>4
  <2>3. PICK x \in Edit : x = IdleHandler /\ x.pc = "idle" /\ EditOK(x)
    BY IdleEdit
  <2>4. Progress(c) => Same(c.at)'
    <3>. SUFFICES ASSUME Progress(c) PROVE Same(c.at)'
      OBVIOUS
    <3>1. /\ c.read = file /\ memory.words[c.at] = {}
          /\ c.at = Home => memory.providers = file.providers
      BY <2>1 DEF Progress
    <3>2. memory'.words[c.at] = file.words
      BY <2>2, <3>1
    <3>. QED BY <1>2, <2>2, <3>1, <3>2 DEF Same
  <2>. QED BY <1>0, <1>2, <2>1, <2>2, <2>3, <2>4, MiddleKept
<1>. QED BY <1>3, <1>4

\* A command takes configMu and reads.
LEMMA ReadFileKept ==
  ASSUME SettingsInv, NEW h \in Handler, ReadFile(h)
  PROVE  SettingsInv' /\ EntriesStay
<1>. USE DEF SettingsInv, SettingsTypeOK
<1>1. PICK x \in Edit : /\ x = [handler[h] EXCEPT !.pc = "write", !.read = file]
                        /\ x.pc = "write" /\ x.op = handler[h].op /\ x.arg = handler[h].arg
                        /\ x.at = handler[h].at /\ x.read = file /\ x = [[handler[h] EXCEPT !.read = file] EXCEPT !.pc = "write"]
  <2>. DEFINE x == [handler[h] EXCEPT !.pc = "write", !.read = file]
  <2>1. /\ x \in Edit /\ x.pc = "write" /\ x.op = handler[h].op /\ x.arg = handler[h].arg
        /\ x.at = handler[h].at /\ x.read = file /\ x = [[handler[h] EXCEPT !.read = file] EXCEPT !.pc = "write"]
    BY DEF Edit
  <2>. QED BY <2>1, Zenon
<1>2. /\ handler[h].pc = "save" /\ configMu = Nobody /\ configMu' = h
      /\ handler' = [handler EXCEPT ![h] = x] /\ outdated' = outdated \ {h}
      /\ UNCHANGED <<file, memory, cli, commands, calls, clean>>
  BY <1>1 DEF ReadFile
<1>3. /\ handler' \in [Handler -> Edit]
      /\ \A j \in Handler : handler'[j] = IF j = h THEN x ELSE handler[j]
  BY <1>2, EditBecomes
<1>4. SettingsTypeOK'
  BY <1>2, <1>3
<1>5. h # Nobody
  BY SettingsAssumption
<1>6. EditsOK'
  BY <1>1, <1>2, <1>3 DEF EditsOK, EditOK
<1>7. LockHeld' /\ ReadsCurrent'
  <2>0. \A j \in Handler : handler[j].pc # "write"
    BY <1>2, SettingsAssumption DEF LockHeld
  <2>1. \A j \in Handler : handler'[j].pc = "write" <=> j = h
    BY <1>1, <1>3, <2>0
  <2>2. LockHeld'
    BY <1>2, <2>1 DEF LockHeld
  <2>3. handler'[h].read = file' /\ (Nobody \notin outdated' => Nobody \notin outdated)
    BY <1>1, <1>2, <1>3, <1>5
  <2>. QED BY <1>2, <2>1, <2>2, <2>3 DEF ReadsCurrent
<1>8. Progress(handler[h]) => Progress(x)'
  <2>1. PICK y \in Edit : /\ y = [handler[h] EXCEPT !.read = file]
                          /\ y.op = x.op /\ y.at = x.at /\ y.arg = x.arg /\ y.read = x.read
    <3>. DEFINE y == [handler[h] EXCEPT !.read = file]
    <3>1. y \in Edit /\ y.op = x.op /\ y.at = x.at /\ y.arg = x.arg /\ y.read = x.read
      BY <1>1 DEF Edit
    <3>. QED BY <3>1, Zenon
  <2>2. Changed(y) = Changed(x)
    BY <2>1 DEF Changed
  <2>3. Progress(handler[h]) => CaughtUp(y)
    BY <1>2, <2>1 DEF Progress
  <2>4. CaughtUp(y) => CaughtUp(x)'
    BY <1>2, <2>1, <2>2 DEF CaughtUp
  <2>. QED BY <1>1, <1>2, <2>3, <2>4 DEF Progress
<1>9. ASSUME NEW e \in clean'
      PROVE  Follows(x, e)' /\ \A other \in Handler \ {h} : Idle(other)
  <2>1. Follows(handler[h], e) /\ \A other \in Handler \ {h} : Idle(other)
    BY <1>2, <1>9, Zenon DEF AloneProgresses, Idle
  <2>2. CASE e = x.at
    BY <1>1, <1>8, <2>1, <2>2 DEF Follows
  <2>3. CASE e # x.at
    BY <1>1, <1>2, <2>1, <2>3 DEF Follows, Same
  <2>. QED BY <2>1, <2>2, <2>3
<1>10. AloneProgresses' /\ RestIsSaved'
  BY <1>1, <1>2, <1>3, <1>9 DEF AloneProgresses, Idle, RestIsSaved
<1>11. EntriesStay
  BY <1>2 DEF EntriesStay
<1>. QED BY <1>4, <1>6, <1>7, <1>10, <1>11

\* A command writes what it made of the file, or fails, and gives configMu back.
LEMMA WriteFileKept ==
  ASSUME SettingsInv, NEW h \in Handler, WriteFile(h)
  PROVE  SettingsInv' /\ EntriesStay
<1>. USE DEF SettingsInv, SettingsTypeOK
<1>0. PICK c \in Edit : c = handler[h] /\ EditOK(c) /\ c.pc = "write" /\ c.op \in Saving
  BY DEF EditsOK, EditOK, WriteFile
<1>. DEFINE word == c.op \in {"word add", "word delete"}
             kept == IF word THEN clean \intersect {c.at} ELSE clean
<1>1. /\ handler' = [handler EXCEPT ![h] = IdleHandler] /\ configMu = h /\ configMu' = Nobody
      /\ UNCHANGED <<memory, cli, commands, calls>>
  BY <1>0 DEF WriteFile, LockHeld
<1>2. /\ Changed(c) \in ConfigFile
      /\ Accepted(c) => IsInjective(Changed(c).providers)
      /\ Entries(c.read) \ Entries(Changed(c)) \subseteq {c.arg}
  BY <1>0, ChangedFile
<1>3. /\ handler' \in [Handler -> Edit] /\ handler'[h] = IdleHandler
      /\ \A j \in Handler \ {h} : handler'[j] = handler[j]
  BY <1>1, IdleEdit, EditBecomes
<1>4. h # Nobody /\ \A j \in Handler \ {h} : handler[j].pc # "write"
  BY <1>1, SettingsAssumption DEF LockHeld
<1>5. /\ EditsOK'
      /\ LockHeld'
      /\ \A j \in Handler : handler'[j].pc # "write"
      /\ \A j \in Handler : Idle(j)' => j = h \/ Idle(j)
  BY <1>1, <1>3, <1>4, IdleEdit, SettingsAssumption DEF EditsOK, LockHeld, Idle
<1>6. CASE file' = file /\ outdated' = outdated /\ clean' = clean \ {c.at}
  <2>1. SettingsTypeOK' /\ ReadsCurrent' /\ EntriesStay
    BY <1>1, <1>3, <1>5, <1>6 DEF ReadsCurrent, EntriesStay
  <2>2. ASSUME NEW e \in clean' PROVE Same(e)' /\ \A j \in Handler : Idle(j)'
    <3>1. Follows(c, e) /\ e # c.at /\ \A j \in Handler \ {h} : Idle(j)
      BY <1>0, <1>6, <2>2, Zenon DEF AloneProgresses, Idle
    <3>2. Same(e)'
      BY <1>1, <1>6, <3>1 DEF Follows, Same
    <3>. QED BY <1>3, <3>1, <3>2, IdleEdit DEF Idle
  <2>3. AloneProgresses' /\ RestIsSaved'
    BY <2>2 DEF AloneProgresses, RestIsSaved, Same
  <2>. QED BY <1>5, <2>1, <2>3
<1>7. CASE /\ Accepted(c) /\ file' = Changed(c) /\ clean' = kept
           /\ outdated' = IF cli.pc = "write" THEN outdated \union {Nobody} ELSE outdated
  <2>1. SettingsTypeOK'
    BY <1>1, <1>2, <1>3, <1>7
  <2>2. ReadsCurrent'
    BY <1>1, <1>5, <1>7 DEF ReadsCurrent
  <2>3. ASSUME NEW e \in clean' PROVE Same(e)' /\ \A j \in Handler : Idle(j)'
    <3>0. file' = Changed(c) /\ memory' = memory
      BY <1>1, <1>7
    <3>1. Follows(c, e) /\ e \in clean /\ (word => e = c.at) /\ \A j \in Handler \ {h} : Idle(j)
      BY <1>0, <1>7, <2>3, Zenon DEF AloneProgresses, Idle
    <3>2. Same(e)'
      <4>1. CASE e = c.at
        <5>1. CaughtUp(c)
          BY <1>0, <3>1, <4>1 DEF Follows, Progress
        <5>. QED BY <3>0, <4>1, <5>1 DEF CaughtUp, Same
      <4>2. CASE e # c.at
        <5>1. c.read = file /\ Same(e) /\ c.op \in {"add", "remove", "switch", "other"}
          BY <1>0, <3>1, <4>2 DEF Follows, Saving
        <5>2. Changed(c).words = file.words
          BY <5>1 DEF Changed, ConfigFile
        <5>3. e = Home => Changed(c).providers = file.providers
          BY <1>0, <4>2, <5>1 DEF Changed, ConfigFile, EditOK
        <5>. QED BY <3>0, <5>1, <5>2, <5>3 DEF Same
      <4>. QED BY <4>1, <4>2
    <3>. QED BY <1>3, <3>1, <3>2, IdleEdit DEF Idle
  <2>4. AloneProgresses' /\ RestIsSaved'
    BY <2>3 DEF AloneProgresses, RestIsSaved, Same
  <2>5. h \notin outdated => c.read = file
    BY <1>0 DEF ReadsCurrent
  <2>6. EntriesStay
    <3>. SUFFICES ASSUME NEW entry \in Entries(file) \ Entries(file')
                  PROVE  handler[h].arg = entry \/ h \in outdated
      BY <1>0, <1>3, IdleEdit DEF EntriesStay
    <3>. QED BY <1>0, <1>2, <1>7, <2>5
  <2>. QED BY <1>5, <2>1, <2>2, <2>4, <2>6
<1>8. \/ file' = file /\ outdated' = outdated /\ clean' = clean \ {c.at}
      \/ /\ Accepted(c) /\ file' = Changed(c) /\ clean' = kept
         /\ outdated' = IF cli.pc = "write" THEN outdated \union {Nobody} ELSE outdated
  BY <1>0, Zenon DEF WriteFile
<1>. QED BY <1>6, <1>7, <1>8

\* The other process reads, and writes whatever the program does in between.
LEMMA CliReadsKept ==
  ASSUME SettingsInv, NEW op \in {"add", "remove"}, NEW p \in Provider, CliReads(op, p)
  PROVE  SettingsInv' /\ EntriesStay
<1>. USE DEF SettingsInv, SettingsTypeOK
<1>1. PICK x \in Edit : EditOK(x) /\ x.pc = "write" /\ x.read = file /\ cli' = x
  <2>. DEFINE x == [IdleHandler EXCEPT !.pc = "write", !.op = op, !.arg = p, !.read = file]
  <2>1. x \in Edit /\ EditOK(x) /\ x.pc = "write" /\ x.read = file
    BY IdleEdit DEF Edit, Op, EditOK, IdleHandler, Saving
  <2>2. cli' = x
    BY DEF CliReads
  <2>. QED BY <2>1, <2>2, Zenon
<1>2. /\ calls < MaxCli /\ calls' = calls + 1 /\ outdated' = outdated \ {Nobody}
      /\ UNCHANGED <<file, memory, configMu, handler, commands, clean>>
  BY DEF CliReads
<1>3. SettingsTypeOK'
  BY <1>1, <1>2, SettingsAssumption
<1>4. ReadsCurrent'
  BY <1>1, <1>2, SettingsAssumption DEF ReadsCurrent
<1>5. EditsOK' /\ LockHeld' /\ RestIsSaved' /\ EntriesStay
  BY <1>1, <1>2 DEF EditsOK, LockHeld, RestIsSaved, EntriesStay
<1>6. AloneProgresses'
  BY <1>2, AloneStays
<1>. QED BY <1>3, <1>4, <1>5, <1>6

LEMMA CliWritesKept ==
  ASSUME SettingsInv, CliWrites
  PROVE  SettingsInv' /\ EntriesStay
<1>. USE DEF SettingsInv, SettingsTypeOK
<1>0. PICK c \in Edit : c = cli /\ EditOK(c) /\ c.pc = "write" /\ c.op \in Saving
  BY DEF EditsOK, EditOK, CliWrites
<1>1. cli' = IdleHandler /\ UNCHANGED <<memory, configMu, handler, commands, calls>>
  BY DEF CliWrites
<1>2. /\ Changed(c) \in ConfigFile
      /\ Accepted(c) => IsInjective(Changed(c).providers)
      /\ Entries(c.read) \ Entries(Changed(c)) \subseteq {c.arg}
  BY <1>0, ChangedFile
<1>3. EditsOK' /\ LockHeld'
  BY <1>1, IdleEdit DEF EditsOK, LockHeld
<1>4. CASE UNCHANGED <<file, outdated, clean>>
  <2>1. SettingsTypeOK' /\ ReadsCurrent' /\ RestIsSaved' /\ EntriesStay
    BY <1>1, <1>4, IdleEdit DEF ReadsCurrent, RestIsSaved, EntriesStay
  <2>2. AloneProgresses'
    BY <1>1, <1>4, AloneStays
  <2>. QED BY <1>3, <2>1, <2>2
<1>5. CASE /\ Accepted(c) /\ file' = Changed(c) /\ clean' = {}
           /\ outdated' = outdated \union {h \in Handler : handler[h].pc = "write"}
  <2>1. SettingsTypeOK'
    BY <1>1, <1>2, <1>5, IdleEdit
  <2>2. ReadsCurrent' /\ RestIsSaved' /\ AloneProgresses'
    BY <1>1, <1>5, IdleEdit DEF ReadsCurrent, RestIsSaved, AloneProgresses
  <2>3. Nobody \notin outdated => c.read = file
    BY <1>0 DEF ReadsCurrent
  <2>4. EntriesStay
    BY <1>0, <1>1, <1>2, <1>5, <2>3, IdleEdit DEF EntriesStay
  <2>. QED BY <1>3, <2>1, <2>2, <2>4
<1>6. \/ UNCHANGED <<file, outdated, clean>>
      \/ /\ Accepted(c) /\ file' = Changed(c) /\ clean' = {}
         /\ outdated' = outdated \union {h \in Handler : handler[h].pc = "write"}
  BY <1>0, Zenon DEF CliWrites
<1>. QED BY <1>4, <1>5, <1>6

LEMMA RestartKept ==
  ASSUME SettingsInv, Restart
  PROVE  SettingsInv' /\ EntriesStay
<1>. USE DEF SettingsInv, SettingsTypeOK
<1>1. /\ memory' = Loaded(file) /\ handler' = [h \in Handler |-> IdleHandler]
      /\ configMu' = Nobody /\ outdated' = outdated \intersect {Nobody} /\ clean' = Proj
      /\ UNCHANGED <<file, cli, commands, calls>>
  BY DEF Restart
<1>2. Loaded(file) \in Memory /\ Loaded(file).providers = file.providers
      /\ \A e \in Proj : Loaded(file).words[e] = file.words
  <2>1. IndexOf(file.providers, file.active) \in Nat
    BY IndexIsNat DEF ConfigFile
  <2>. QED BY <2>1 DEF Loaded, Memory, ConfigFile
<1>3. SettingsTypeOK'
  BY <1>1, <1>2, IdleEdit DEF Memory
<1>4. EditsOK' /\ LockHeld' /\ ReadsCurrent'
  BY <1>1, IdleEdit, SettingsAssumption DEF EditsOK, LockHeld, ReadsCurrent
<1>5. AloneProgresses' /\ RestIsSaved' /\ EntriesStay
  BY <1>1, <1>2, IdleEdit DEF AloneProgresses, Idle, RestIsSaved, EntriesStay
<1>. QED BY <1>3, <1>4, <1>5

LEMMA InitSettings == SettingsInit => SettingsInv
<1>. SUFFICES ASSUME SettingsInit PROVE SettingsInv
  OBVIOUS
<1>1. file \in ConfigFile /\ IsInjective(file.providers)
  <2>1. PICK n \in 0..2 : \E providers \in [1..n -> Provider] :
          /\ IsInjective(providers)
          /\ \E active \in ToSet(providers) \union {NoName} :
               file = [providers |-> providers, active |-> active, words |-> {}]
    BY DEF SettingsInit
  <2>2. PICK providers \in [1..n -> Provider] :
          /\ IsInjective(providers)
          /\ \E active \in ToSet(providers) \union {NoName} :
               file = [providers |-> providers, active |-> active, words |-> {}]
    BY <2>1
  <2>0. providers \in Seq(Provider)
    BY SeqDef
  <2>3. ToSet(providers) \subseteq Provider
    BY DEF ToSet
  <2>. QED BY <2>0, <2>2, <2>3 DEF ConfigFile
<1>2. /\ memory = Loaded(file) /\ handler = [h \in Handler |-> IdleHandler]
      /\ configMu = Nobody /\ outdated = {} /\ clean = Proj
      /\ cli = IdleHandler /\ commands = 0 /\ calls = 0
  BY DEF SettingsInit
<1>3. Loaded(file) \in Memory /\ Loaded(file).providers = file.providers
      /\ \A e \in Proj : Loaded(file).words[e] = file.words
  <2>1. IndexOf(file.providers, file.active) \in Nat
    BY <1>1, IndexIsNat DEF ConfigFile
  <2>. QED BY <1>1, <2>1 DEF Loaded, Memory, ConfigFile
<1>4. SettingsTypeOK
  BY <1>1, <1>2, <1>3, IdleEdit, SettingsAssumption DEF SettingsTypeOK, Memory
<1>5. EditsOK /\ LockHeld /\ ReadsCurrent
  BY <1>2, IdleEdit, SettingsAssumption DEF EditsOK, LockHeld, ReadsCurrent
<1>6. AloneProgresses /\ RestIsSaved
  BY <1>2, <1>3, IdleEdit DEF AloneProgresses, Idle, RestIsSaved
<1>. QED BY <1>4, <1>5, <1>6 DEF SettingsInv

LEMMA SettingsStep ==
  SettingsInv /\ [SettingsNext]_settingsVars => SettingsInv' /\ [EntriesStay]_settingsVars
<1>. SUFFICES ASSUME SettingsInv, [SettingsNext]_settingsVars
              PROVE  SettingsInv' /\ [EntriesStay]_settingsVars
  OBVIOUS
<1>1. CASE UNCHANGED settingsVars
  <2>1. UNCHANGED settingsVars /\ SettingsInv
    BY <1>1
  <2>2. AloneProgresses'
    BY <2>1, AloneStays DEF settingsVars, SettingsInv
  <2>. QED BY <2>1, <2>2 DEF settingsVars, SettingsInv, SettingsTypeOK, EditsOK, LockHeld,
           ReadsCurrent, RestIsSaved
<1>2. CASE SettingsNext
  <2>1. ASSUME NEW h \in Handler, NEW p \in Provider, ProviderAdd(h, p) \/ ProviderRemove(h, p)
        PROVE  SettingsInv' /\ EntriesStay
    BY <2>1, ProviderCommandBegins
  <2>2. ASSUME NEW h \in Handler, NEW e \in Proj,
               \/ \E n \in Name : CommandsAdd(h, e, n) \/ AliasAdd(h, e, n)
               \/ \E w \in SavedWord : WordDelete(h, e, w)
        PROVE  SettingsInv' /\ EntriesStay
    BY <2>2, WordCommandBegins
  <2>3. ASSUME NEW h \in Handler,
               \/ \E p \in Provider \union {NoName} : SwitchProvider(h, p)
               \/ \E e \in Proj : SaveOther(h, e)
        PROVE  SettingsInv' /\ EntriesStay
    BY <2>3, OtherCommandBegins
  <2>4. ASSUME NEW h \in Handler, ProviderAddList(h) \/ SetProviders(h) \/ AddCommand(h)
        PROVE  SettingsInv' /\ EntriesStay
    BY <2>4, CommandGoesOn
  <2>5. ASSUME NEW h \in Handler,
               ReloadProviders(h) \/ ReloadActive(h) \/ ClearWords(h) \/ LoadWords(h)
        PROVE  SettingsInv' /\ EntriesStay
    BY <2>5, ReloadGoesOn
  <2>6. ASSUME NEW h \in Handler, (\E e \in Proj : Reload(h, e)) \/ ReadFile(h) \/ WriteFile(h)
        PROVE  SettingsInv' /\ EntriesStay
    BY <2>6, ReloadBegins, ReadFileKept, WriteFileKept
  <2>7. ASSUME NEW op \in {"add", "remove"}, NEW p \in Provider, CliReads(op, p)
        PROVE  SettingsInv' /\ EntriesStay
    BY <2>7, CliReadsKept
  <2>. QED BY <1>2, <2>1, <2>2, <2>3, <2>4, <2>5, <2>6, <2>7, CliWritesKept, RestartKept
           DEF SettingsNext
<1>. QED BY <1>1, <1>2

\* The settings keep their types: the file names no provider twice.
THEOREM SettingsTypeCorrect == SettingsSpec => []SettingsTypeOK
<1>1. SettingsInit => SettingsInv
  BY InitSettings
<1>2. SettingsInv /\ [SettingsNext]_settingsVars => SettingsInv'
  BY SettingsStep
<1>3. SettingsInv => SettingsTypeOK
  BY DEF SettingsInv
<1>. QED BY <1>1, <1>2, <1>3, PTL DEF SettingsSpec

\* However many commands and calls of the other process write at once, a write takes
\* nothing out of config.toml but what its command removes, unless the writer read
\* before the other process wrote (SaveConfig and its callers under configMu).
THEOREM SavedEntriesStay == SettingsSpec => SavedStays
<1>1. SettingsInit => SettingsInv
  BY InitSettings
<1>2. SettingsInv /\ [SettingsNext]_settingsVars => SettingsInv'
  BY SettingsStep
<1>3. SettingsInv /\ [SettingsNext]_settingsVars => [EntriesStay]_settingsVars
  BY SettingsStep
<1>. QED BY <1>1, <1>2, <1>3, PTL DEF SettingsSpec, SavedStays, EntriesStay

\* When all is at rest, an engine whose commands crossed no other and were saved since
\* it last loaded, while no other engine saved a word, has the words of config.toml and
\* its agent the providers (main.go, commands of the engine, config.go).
THEOREM RestIsAlwaysSaved == SettingsSpec => []RestIsSaved
<1>1. SettingsInit => SettingsInv
  BY InitSettings
<1>2. SettingsInv /\ [SettingsNext]_settingsVars => SettingsInv'
  BY SettingsStep
<1>3. SettingsInv => RestIsSaved
  BY DEF SettingsInv
<1>. QED BY <1>1, <1>2, <1>3, PTL DEF SettingsSpec
=============================================================================
