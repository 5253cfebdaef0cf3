---------------------------- MODULE Conversations ----------------------------
(***************************************************************************)
(* Conversation memory: a request that names a conversation is sent with   *)
(* its history (loadHistory) and stores its own turn when the answer is in *)
(* (saveTurn, memory.Append), under a lock taken per access.  Turns of one *)
(* conversation overlap, and so does its deletion.                         *)
(***************************************************************************)
EXTENDS Naturals, FiniteSets, SequencesExt, Lists

CONSTANTS
    Projects, Ids,     \* project-scoped keys and the ids their clients use
    Turns,             \* requests that name a conversation
    Bodies,            \* their messages: sequences of [role, size], sizes in characters
    Replies,           \* sizes of an answer; 0 is an answer without text
    MaxTurns,          \* MaxTurns: messages kept of a conversation
    MaxChars,          \* MaxChars: characters kept
    MaxDrops,          \* bound of the model: deletions, failed reads and failed writes
    NoProject,         \* an administrator's key: it has no project
    NoFile

ASSUME ConversationsAssumption ==
    /\ NoProject \notin Projects /\ Replies \subseteq Nat
    /\ MaxTurns \in Nat \ {0} /\ {MaxChars, MaxDrops} \subseteq Nat
    /\ \A b \in Bodies : b \in Seq([role : {"system", "user"}, size : Nat])
    /\ NoFile \notin Seq([turn : Turns, nth : Nat, role : {"user", "assistant"}, size : Nat])

VARIABLES
    file,     \* root/project/id.json: its messages, or NoFile
    turn,     \* the requests in flight
    ever,     \* history: what was stored in each conversation since it was last deleted,
              \* or begun anew because its file could not be read
    drops

conversationsVars == <<file, turn, ever, drops>>

Conversation == Projects \X Ids

\* A message, marked with the request it came in with and its place there; the
\* mark is the model's, to tell two messages of one text apart.
Marked(t, body) == [i \in DOMAIN body |-> [turn |-> t, nth |-> i, role |-> body[i].role, size |-> body[i].size]]
Answer(t, size) == [turn |-> t, nth |-> 0, role |-> "assistant", size |-> size]

Resting == [pc |-> "idle", of |-> NoProject, body |-> <<>>, sent |-> <<>>, reply |-> 0]

ConversationsInit ==
    /\ file = [c \in Conversation |-> NoFile] /\ ever = [c \in Conversation |-> <<>>]
    /\ turn = [t \in Turns |-> Resting] /\ drops = 0

\* Of a list of messages, the system's.
System(msgs) == {m \in Range(msgs) : m.role = "system"}

\* loadHistory: system messages, then what is stored, then the new turns.
Merged(stored, new) == Only(new, System(new)) \o stored \o Only(new, Range(new) \ System(new))

\* handleChat with a conversation_id: the history is read and the call sent; if
\* the file is there and cannot be read it is sent without.
Replay(t, c, body) ==
    LET new == Marked(t, body)
        Send(msgs) == turn' = [turn EXCEPT ![t] = [Resting EXCEPT !.pc = "asking", !.of = c,
                                                                  !.body = new, !.sent = msgs]]
    IN  /\ turn[t].pc = "idle"
        /\ \/ /\ Send(IF file[c] = NoFile \/ file[c] = <<>> THEN new ELSE Merged(file[c], new))
              /\ UNCHANGED drops
           \/ /\ file[c] # NoFile /\ drops < MaxDrops /\ drops' = drops + 1
              /\ Send(new)
        /\ UNCHANGED <<file, ever>>

\* A key without a project has no conversations: the request is refused.
NoNamespace(t) ==
    /\ turn[t].pc = "idle"
    /\ turn' = [turn EXCEPT ![t].pc = "over"]
    /\ UNCHANGED <<file, ever, drops>>

AnswerCame(t, size) ==
    /\ turn[t].pc = "asking"
    /\ turn' = [turn EXCEPT ![t].pc = "saving", ![t].reply = size]
    /\ UNCHANGED <<file, ever, drops>>

\* No answer, a broken stream, or the process died: nothing is stored.
NoAnswer(t) ==
    /\ turn[t].pc \in {"asking", "saving"}
    /\ turn' = [turn EXCEPT ![t].pc = "over"]
    /\ UNCHANGED <<file, ever, drops>>

\* saveTurn: the messages this request brought, not the system's and not the
\* replayed ones, and the reply if it says anything; Append drops blank ones.
TurnOf(t) ==
    LET said == turn[t].body \o (IF turn[t].reply > 0 THEN <<Answer(t, turn[t].reply)>> ELSE <<>>)
    IN Only(said, {m \in Range(said) \ System(said) : m.size > 0})

Chars(msgs) == SumFunction([i \in DOMAIN msgs |-> msgs[i].size])

\* trim: the longest tail within both limits.
Trim(msgs) ==
    LET fits == {i \in 1 .. Len(msgs) + 1 : /\ Len(msgs) - i + 1 <= MaxTurns
                                            /\ Chars(SubSeq(msgs, i, Len(msgs))) <= MaxChars}
    IN SubSeq(msgs, Min(fits), Len(msgs))

Stored(c) == IF file[c] = NoFile THEN <<>> ELSE file[c]

\* Variant: the turn is added to what was replayed, not to what is stored now.
RememberStale(t) ==
    LET c == turn[t].of
        seen == Only(turn[t].sent, {m \in Range(turn[t].sent) : m.turn # t})
    IN /\ turn[t].pc = "saving" /\ turn' = [turn EXCEPT ![t].pc = "over"]
       /\ file' = [file EXCEPT ![c] = Trim(seen \o TurnOf(t))]
       /\ ever' = [ever EXCEPT ![c] = @ \o TurnOf(t)]
       /\ UNCHANGED drops

\* memory.Append: read, add, trim and rename over the old file, under one lock.
\* A file that cannot be read, or parsed, is taken for none: the conversation
\* begins anew and replaces it.  A write that fails is logged, and the turn is
\* not kept.
Remember(t) ==
    LET c == turn[t].of
        silent == Range(turn[t].body) = System(turn[t].body) /\ turn[t].reply = 0
        Keep(stored, since) == /\ file' = [file EXCEPT ![c] = Trim(stored \o TurnOf(t))]
                               /\ ever' = [ever EXCEPT ![c] = since \o TurnOf(t)]
    IN /\ turn[t].pc = "saving"
       /\ turn' = [turn EXCEPT ![t].pc = "over"]
       /\ \/ silent /\ UNCHANGED <<file, ever, drops>>
          \/ ~silent /\ Keep(Stored(c), ever[c]) /\ UNCHANGED drops
          \/ /\ ~silent /\ file[c] # NoFile /\ Keep(<<>>, <<>>)
             /\ drops < MaxDrops /\ drops' = drops + 1
          \/ /\ drops < MaxDrops /\ drops' = drops + 1 /\ UNCHANGED <<file, ever>>

\* deleteConversation.
Forget(c) ==
    /\ file[c] # NoFile /\ drops < MaxDrops
    /\ file' = [file EXCEPT ![c] = NoFile] /\ ever' = [ever EXCEPT ![c] = <<>>]
    /\ drops' = drops + 1 /\ UNCHANGED turn

ConversationsNext ==
    \/ \E t \in Turns :
          \/ \E c \in Conversation, b \in Bodies : Replay(t, c, b)
          \/ NoNamespace(t) \/ NoAnswer(t) \/ Remember(t) \/ \E n \in Replies : AnswerCame(t, n)
    \/ \E c \in Conversation : Forget(c)

ConversationsSpec == ConversationsInit /\ [][ConversationsNext]_conversationsVars

-----------------------------------------------------------------------------
ConversationsTypeOK ==
    /\ \A c \in Conversation : Len(Stored(c)) <= MaxTurns /\ Chars(Stored(c)) <= MaxChars
    /\ \A t \in Turns : /\ turn[t].pc \in {"idle", "asking", "saving", "over"}
                        /\ turn[t].pc \in {"asking", "saving"} => turn[t].of \in Conversation
                        /\ turn[t].reply \in Replies \cup {0}
    /\ drops \in 0 .. MaxDrops

\* However turns of one conversation overlap, its file holds the end of all
\* that was stored in it, in the order it was stored and as long as the limits
\* allow, since it was deleted or its file could not be read: no turn overwrites
\* another's but by finding it unreadable, none is stored twice and none
\* survives a deletion (memory.Append, trim).
HistoryIsTheTail ==
    \A c \in Conversation : file[c] # NoFile =>
        /\ file[c] = Trim(ever[c])
        /\ \A i, j \in DOMAIN file[c] :
              file[c][i].turn = file[c][j].turn /\ file[c][i].nth = file[c][j].nth => i = j

=============================================================================
