----------------------------- MODULE AskModel -----------------------------
(***************************************************************************)
(* How a run asks its model: the history that goes with the question       *)
(* (trimHistory in internal/agent/context.go), the chain of providers that *)
(* are asked one after the other (internal/provider/fallback.go,           *)
(* buildProviders in cmd/bolt-cowork/main.go), and what the right panel    *)
(* shows of it (internal/ui/views/session.go).                             *)
(*                                                                         *)
(* A message is its role and its length.  What a provider answers is any   *)
(* of the classes of answers the clients of the providers tell apart       *)
(* (anthropic.go, openai.go, gemini.go, custom.go in internal/provider).   *)
(***************************************************************************)
EXTENDS Naturals, Sequences, FiniteSetsExt

CONSTANTS
    Entries,              \* length of the configured fallback chain
    Anthropic, OpenAI, Gemini,  \* entries with a client of their own
    Keyless,              \* entries whose server needs no key
    MaxContextMessages,   \* 20 in the code
    MaxContextChars,      \* 32000 in the code
    Lengths,              \* bound: lengths of messages
    MaxMessages,          \* bound: messages of the history
    MaxAsks               \* bound: questions of one run

ASSUME AskAssumption ==
    /\ Entries \in Nat /\ MaxAsks \in Nat \ {0}
    /\ UNION {Anthropic, OpenAI, Gemini, Keyless} \subseteq 0 .. Entries
    /\ Keyless \cap UNION {Anthropic, OpenAI, Gemini} = {}
    /\ MaxContextMessages \in Nat /\ MaxContextChars \in Nat
    /\ Lengths \subseteq Nat

Message == [role : {"system", "user", "assistant"}, len : Lengths]

VARIABLES
    history,   \* the conversation of the session
    messages,  \* Agent.messages: the same with the command of this run
    keyed,     \* entries of the configured chain: "ready", "no key", or
               \* "unknown" to the configuration; entry 0 is the default
    chain,     \* the providers of this run
    ask,       \* the question under way: which provider, and who was told
    asks,      \* questions of this run
    active,    \* FallbackChain.lastActive, 0 for nil
    shown      \* Session.activeProvider, 0 for ""

askVars == <<history, messages, keyed, chain, ask, asks, active, shown>>

-----------------------------------------------------------------------------
(* trimHistory                                                             *)

(* The lengths of the first n messages together. *)
LenUpTo(msgs) ==
    LET sum[n \in 0 .. Len(msgs)] == IF n = 0 THEN 0 ELSE sum[n - 1] + msgs[n].len
    IN sum

TotalLen(msgs) == LenUpTo(msgs)[Len(msgs)]
LastOf(msgs, n) == SubSeq(msgs, Len(msgs) - n + 1, Len(msgs))

HasSystem(msgs) == msgs # <<>> /\ msgs[1].role = "system"
System(msgs) == IF HasSystem(msgs) THEN <<msgs[1]>> ELSE <<>>
Rest(msgs) == IF HasSystem(msgs) THEN Tail(msgs) ELSE msgs

(* The oldest message is dropped until the lengths fit. *)
FitChars(msgs) ==
    LET fit[n \in 0 .. Len(msgs)] ==
            IF n = 0 \/ TotalLen(System(msgs) \o LastOf(msgs, n)) <= MaxContextChars
            THEN n ELSE fit[n - 1]
    IN fit

(* Mutation: the cut by length reserves no slot for the system message. *)
KeptWithoutSystem(msgs) ==
    LET byChars == FitChars(msgs)[Min({Len(Rest(msgs)), MaxContextMessages})]
        room == IF MaxContextMessages > 1 THEN MaxContextMessages - 1 ELSE 0
    IN IF byChars < Len(Rest(msgs)) THEN Min({byChars, room}) ELSE byChars

(* How many of the messages after the system message are kept. *)
KeptMessages(msgs) ==
    LET byCount == Min({Len(Rest(msgs)), MaxContextMessages})
        byChars == FitChars(msgs)[byCount]
        reserved == 1 + Len(System(msgs))
        room == IF MaxContextMessages > reserved THEN MaxContextMessages - reserved ELSE 0
    IN IF byChars < Len(Rest(msgs)) THEN Min({byChars, room}) ELSE byChars

Trim(msgs) ==
    [system |-> System(msgs),
     omitted |-> Len(Rest(msgs)) - KeptMessages(msgs),
     rest |-> LastOf(msgs, KeptMessages(msgs))]

-----------------------------------------------------------------------------
(* buildProviders                                                          *)

(* The first n entries that the configuration knows. *)
KnownUpTo ==
    LET known[n \in 0 .. Entries] ==
            IF n = 0 THEN <<>>
            ELSE IF keyed[n] = "unknown" THEN known[n - 1] ELSE Append(known[n - 1], n)
    IN known

(* Entry 0, the default provider, stands in for an empty chain. *)
BuildProviders ==
    LET known == KnownUpTo[Entries]
    IN IF known # <<>> THEN known
       ELSE IF keyed[0] # "unknown" THEN <<0>> ELSE <<>>

(* A custom provider may do without a key. *)
Available(p) == keyed[p] = "ready" \/ (p \in Keyless /\ keyed[p] = "no key")

-----------------------------------------------------------------------------
(* The clients.  A reply has a text, or no part that could hold one, or is  *)
(* cut short or no JSON; it has a status that is retryable or not; or the   *)
(* request fails.                                                           *)

Replies == {"text", "no part", "garbled", "refused", "retryable", "unreachable"}

CheckResponse(reply) ==
    CASE reply = "retryable" -> "not available"
      [] reply = "refused" -> "error"
      [] OTHER -> "ok"

OpenAIChat(reply) ==
    CASE CheckResponse(reply) # "ok" -> CheckResponse(reply)
      [] reply = "text" -> "ok"
      [] OTHER -> "error"

GeminiChat(reply) == OpenAIChat(reply)
CustomChat(reply) == OpenAIChat(reply)

(* extractText of no block is an answer, the empty one. *)
AnthropicChat(reply) == IF reply = "no part" THEN "empty" ELSE OpenAIChat(reply)

Outcome(p, reply) ==
    CASE p \in Anthropic -> AnthropicChat(reply)
      [] p \in OpenAI -> OpenAIChat(reply)
      [] p \in Gemini -> GeminiChat(reply)
      [] OTHER -> CustomChat(reply)

-----------------------------------------------------------------------------
(* ask.at is the place in the chain of the next provider to ask, and       *)
(* ask.told the switches the user was told of, as pairs of places.         *)

Quiet == [pc |-> "idle", at |-> 0, told |-> <<>>, end |-> "none"]

AskInit ==
    /\ history \in {<<>>} \cup {<<[role |-> "system", len |-> n]>> : n \in Lengths}
    /\ messages = history
    /\ keyed \in [0 .. Entries -> {"ready", "no key", "unknown"}]
    /\ chain = <<>>
    /\ ask = Quiet
    /\ asks = 0
    /\ active = 0
    /\ shown = 0

Fail(end) == ask' = [ask EXCEPT !.pc = "idle", !.end = end]

(* Enter and runTUI: a new chain, and a new agent, for every command. *)
Enter(n) ==
    /\ ask.pc = "idle"
    /\ Len(history) + 2 <= MaxMessages
    /\ messages' = Append(history, [role |-> "user", len |-> n])
    /\ shown' = 0 /\ active' = 0 /\ asks' = 0
    /\ chain' = BuildProviders
    /\ ask' = IF BuildProviders = <<>> THEN [Quiet EXCEPT !.end = "failed"]
                                       ELSE [Quiet EXCEPT !.pc = "plan"]
    /\ UNCHANGED <<history, keyed>>

(* CreatePlan calls FallbackChain.Chat. *)
CreatePlan ==
    /\ ask.pc = "plan" /\ asks < MaxAsks
    /\ asks' = asks + 1
    /\ ask' = [Quiet EXCEPT !.pc = "ask", !.at = 1]
    /\ UNCHANGED <<history, messages, keyed, chain, active, shown>>

(* Mutation: one step past the end of the chain. *)
NextProviderPastEnd(at) ==
    IF at <= Len(chain)
    THEN ask' = [ask EXCEPT !.at = at + 1, !.told = Append(@, <<at, at + 1>>)]
    ELSE Fail("no answer")

(* notifyFallback, and on to the next provider. *)
NextProvider(at) ==
    IF at < Len(chain)
    THEN ask' = [ask EXCEPT !.at = at + 1, !.told = Append(@, <<at, at + 1>>)]
    ELSE Fail("no answer")

Skip ==
    /\ ask.pc = "ask" /\ ~Available(chain[ask.at])
    /\ NextProvider(ask.at)
    /\ UNCHANGED <<history, messages, keyed, chain, asks, active, shown>>

Chat(reply) ==
    /\ ask.pc = "ask" /\ Available(chain[ask.at])
    /\ LET outcome == Outcome(chain[ask.at], reply)
       IN CASE outcome \in {"ok", "empty"} ->
                  /\ active' = chain[ask.at]
                  /\ ask' = [ask EXCEPT !.pc = IF outcome = "ok" THEN "reply" ELSE "no plan"]
            [] outcome = "not available" -> NextProvider(ask.at) /\ UNCHANGED active
            [] outcome = "error" -> Fail("no answer") /\ UNCHANGED active
    /\ UNCHANGED <<history, messages, keyed, chain, asks, shown>>

(* The plan misses the intent of the command, or is to be revised. *)
AskAgain ==
    /\ ask.pc = "reply"
    /\ ask' = [ask EXCEPT !.pc = "plan"]
    /\ UNCHANGED <<history, messages, keyed, chain, asks, active, shown>>

(* The reply is no plan, or the run fails before it or after it. *)
RunFails ==
    /\ ask.pc \in {"plan", "reply", "no plan"}
    /\ Fail("failed")
    /\ UNCHANGED <<history, messages, keyed, chain, asks, active, shown>>

(* Mutation: the first provider of the chain is taken for the active one. *)
RunEndsWithFirst(n) ==
    /\ ask.pc = "reply"
    /\ ask' = [ask EXCEPT !.pc = "idle", !.end = "ok"]
    /\ messages' = Append(messages, [role |-> "assistant", len |-> n])
    /\ history' = messages'
    /\ shown' = chain[1]
    /\ UNCHANGED <<keyed, chain, asks, active>>

(* The run succeeds: the session takes its history, and the panel shows   *)
(* LastActive.                                                             *)
RunEnds(n) ==
    /\ ask.pc = "reply"
    /\ ask' = [ask EXCEPT !.pc = "idle", !.end = "ok"]
    /\ messages' = Append(messages, [role |-> "assistant", len |-> n])
    /\ history' = messages'
    /\ shown' = active
    /\ UNCHANGED <<keyed, chain, asks, active>>

(* The wizard or a command gives a provider a key, or takes it away. *)
KeyChanges(p, key) ==
    /\ ask.pc = "idle"
    /\ keyed' = [keyed EXCEPT ![p] = key]
    /\ UNCHANGED <<history, messages, chain, ask, asks, active, shown>>

AskNext ==
    \/ CreatePlan \/ Skip \/ AskAgain \/ RunFails
    \/ \E reply \in Replies : Chat(reply)
    \/ \E n \in Lengths : Enter(n) \/ RunEnds(n)
    \/ \E p \in 0 .. Entries, key \in {"ready", "no key"} : KeyChanges(p, key)

AskSpec == AskInit /\ [][AskNext]_askVars

-----------------------------------------------------------------------------
AskTypeOK ==
    /\ history \in Seq(Message) /\ messages \in Seq(Message)
    /\ chain \in Seq(0 .. Entries)
    /\ ask.pc \in {"idle", "plan", "ask", "reply", "no plan"}
    /\ ask.end \in {"none", "ok", "no answer", "failed"}
    /\ ask.pc = "ask" => ask.at \in DOMAIN chain
    /\ asks \in 0 .. MaxAsks
    /\ {active, shown} \subseteq 0 .. Entries

(* What is sent fits the limits and is the most that does: all of it,     *)
(* else the longest end of the conversation that leaves a slot for the     *)
(* summary and for the system message (trimHistory).                       *)
FitsContext(msgs, n) ==
    /\ TotalLen(System(msgs) \o LastOf(msgs, n)) <= MaxContextChars
    /\ IF n = Len(Rest(msgs)) THEN n <= MaxContextMessages
                              ELSE Len(System(msgs)) + 1 + n <= MaxContextMessages

TrimIsLongest ==
    LET t == Trim(messages)
    IN /\ Len(t.rest) = Max({0} \cup {n \in 0 .. Len(Rest(messages)) : FitsContext(messages, n)})
       /\ t.omitted + Len(t.rest) = Len(Rest(messages))
       /\ t.system = System(messages)

(* The panel shows the provider that gave the last answer: the one the     *)
(* switches the user was told of for that question lead to                 *)
(* (FallbackChain.Chat, notifyFallback, LastActive).                       *)
ShownIsWhoAnswered ==
    ask.end = "ok" => shown = chain[Len(ask.told) + 1]

(* A question is given up only once the last provider of the chain failed  *)
(* it: one that returns an error is passed over like one that is           *)
(* unavailable, as the comment of FallbackChain.Chat has it.               *)
ErrorsMoveOn ==
    ask.end = "no answer" => ask.at = Len(chain)
=============================================================================
