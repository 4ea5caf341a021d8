---------------------------- MODULE MailChannel -----------------------------
(* The mail-only channel of a guest and its relay (internal/agentenv mail_channel.go,    *)
(* mail_relay.go): one listener after another in one directory, each with the requests   *)
(* it has let in, the relay's own bounds and the node's upstream slots, which it shares  *)
(* with the relays of other guests.                                                      *)
EXTENDS Naturals, FiniteSets

CONSTANTS Channels,     \* openings of the channel, one after another
          Mails,        \* requests of the guest
          NodeSlots, GuestSlots, MaxMailInflight, WriteTokens   \* the relay's bounds

ASSUME MailAssumption ==
    /\ IsFiniteSet(Mails) /\ "free" \notin Channels /\ "foreign" \notin Channels
    /\ NodeSlots \in Nat /\ WriteTokens \in Nat

VARIABLES
    channel,    \* each channel: its step, flags, how far Revoke and Close are, its write tokens
    mailLock,   \* who has mail-only.lock
    socket,     \* whose mail.sock is there
    receipts,   \* each channel's intent, ready and closed records
    mail,       \* each request: its step, channel, method, and the slots it has
    others,     \* upstream slots other relays have
    nodeSlots,  \* mailUpstreamSlots
    tooLate     \* requests sent upstream by a relay that was revoked

mailVars == <<channel, mailLock, socket, receipts, mail, others, nodeSlots, tooLate>>
chanVars == <<channel, mailLock, socket, receipts>>

Free == "free"
NoMail == [pc |-> "none", ch |-> Free, post |-> FALSE, cancelled |-> FALSE, share |-> FALSE, slot |-> FALSE]
Unopened == [pc |-> "none", closing |-> FALSE, revoke |-> "no", revoked |-> FALSE, serving |-> FALSE, life |-> TRUE, close |-> "no", tokens |-> WriteTokens]

MailTypeOK ==
    /\ \A c \in Channels : channel[c].pc \in {"none", "intent", "listen", "open", "failed", "closed"} /\ channel[c].tokens \in 0..WriteTokens
    /\ mailLock \in Channels \cup {Free} /\ socket \in Channels \cup {Free, "foreign"}
    /\ nodeSlots \in 0..NodeSlots /\ others \in 0..NodeSlots

MailInit ==
    /\ channel = [c \in Channels |-> Unopened] /\ mailLock = Free /\ socket = Free /\ receipts = [c \in Channels |-> {}]
    /\ mail = [q \in Mails |-> NoMail] /\ others = 0 /\ nodeSlots = 0 /\ tooLate = {}

(*********************************** the channel ************************************)
\* openMailOnlyChannel: under the lock, and only where no socket is; the intent comes first.
OpenMail(c) ==
    /\ channel[c].pc = "none" /\ mailLock = Free /\ socket = Free
    /\ mailLock' = c /\ receipts' = [receipts EXCEPT ![c] = {"intent"}] /\ channel' = [channel EXCEPT ![c].pc = "intent"]
    /\ UNCHANGED <<socket, mail, others, nodeSlots, tooLate>>
Listen(c) ==
    /\ channel[c].pc = "intent" /\ socket = Free /\ socket' = c /\ channel' = [channel EXCEPT ![c].pc = "listen"]
    /\ UNCHANGED <<mailLock, receipts, mail, others, nodeSlots, tooLate>>
Ready(c) ==
    /\ channel[c].pc = "listen" /\ channel[c].life
    /\ receipts' = [receipts EXCEPT ![c] = @ \cup {"ready"}]
    /\ channel' = [channel EXCEPT ![c].pc = "open", ![c].serving = TRUE]
    /\ UNCHANGED <<mailLock, socket, mail, others, nodeSlots, tooLate>>

\* A failed construction frees the lock and leaves its intent and any socket.
OpenFails(c) ==
    /\ channel[c].pc \in {"intent", "listen"} /\ mailLock' = Free
    /\ channel' = [channel EXCEPT ![c].pc = "failed", ![c].revoked = TRUE]
    /\ UNCHANGED <<socket, receipts, mail, others, nodeSlots, tooLate>>

\* The owner's context ends, the socket's path is replaced, an inspector removes what was left.
LifeEnds(c) ==
    /\ channel[c].pc \in {"intent", "listen", "open"} /\ channel[c].life
    /\ channel' = [channel EXCEPT ![c].life = FALSE]
    /\ mail' = [q \in Mails |-> IF mail[q].ch = c THEN [mail[q] EXCEPT !.cancelled = TRUE] ELSE mail[q]]
    /\ UNCHANGED <<mailLock, socket, receipts, others, nodeSlots, tooLate>>
PathReplaced ==
    /\ socket \in Channels /\ socket' = "foreign"
    /\ UNCHANGED <<channel, mailLock, receipts, mail, others, nodeSlots, tooLate>>
Inspected ==
    /\ mailLock = Free /\ socket # Free /\ socket' = Free
    /\ UNCHANGED <<channel, mailLock, receipts, mail, others, nodeSlots, tooLate>>

\* Revoke, once: no request is let in any more; then the relay cancels what it has; then the
\* server is closed. It is called at the context's end, when serving ends, and by Close.
RevokeCalled(c) == ~channel[c].life \/ ~channel[c].serving \/ channel[c].close # "no"
Revoke(c) ==
    /\ channel[c].pc = "open" /\ channel[c].revoke = "no" /\ RevokeCalled(c)
    /\ channel' = [channel EXCEPT ![c].closing = TRUE, ![c].revoke = "relay"]
    /\ UNCHANGED <<mailLock, socket, receipts, mail, others, nodeSlots, tooLate>>
RelayRevoke(c) ==
    /\ channel[c].revoke = "relay" /\ channel' = [channel EXCEPT ![c].revoke = "server", ![c].revoked = TRUE]
    /\ mail' = [q \in Mails |-> IF mail[q].ch = c /\ mail[q].pc # "in" THEN [mail[q] EXCEPT !.cancelled = TRUE] ELSE mail[q]]
    /\ UNCHANGED <<mailLock, socket, receipts, others, nodeSlots, tooLate>>
ServerClose(c) ==
    /\ channel[c].revoke = "server" /\ channel' = [channel EXCEPT ![c].revoke = "done"]
    /\ UNCHANGED <<mailLock, socket, receipts, mail, others, nodeSlots, tooLate>>
ServeEnds(c) ==
    /\ channel[c].serving /\ channel' = [channel EXCEPT ![c].serving = FALSE]
    /\ UNCHANGED <<mailLock, socket, receipts, mail, others, nodeSlots, tooLate>>

Active(c) == {q \in Mails : mail[q].ch = c /\ mail[q].pc # "done"}

\* Fault: the end of serving is taken for the end of the requests.
DrainedServe(c) == channel[c].closing /\ ~channel[c].serving

\* signalDrainLocked: closing, and no request left.
Drained(c) == channel[c].closing /\ ~channel[c].serving /\ Active(c) = {}

\* Close: it waits for the revocation, the end of serving and the drain, or its own context's
\* end, after which it may be called again; then the socket is removed if it is still its own,
\* the closure recorded and the lock freed.
Close(c) ==
    /\ channel[c].pc = "open" /\ channel[c].close = "no" /\ channel' = [channel EXCEPT ![c].close = "waits"]
    /\ UNCHANGED <<mailLock, socket, receipts, mail, others, nodeSlots, tooLate>>
CloseTimesOut(c) ==
    /\ channel[c].close = "waits" /\ channel[c].revoke = "done" /\ channel' = [channel EXCEPT ![c].close = "no"]
    /\ UNCHANGED <<mailLock, socket, receipts, mail, others, nodeSlots, tooLate>>
CloseFinishes(c) ==
    /\ channel[c].close = "waits" /\ channel[c].revoke = "done" /\ Drained(c)
    /\ socket' = IF socket = c THEN Free ELSE socket
    /\ receipts' = [receipts EXCEPT ![c] = @ \cup {"closed"}]
    /\ channel' = [channel EXCEPT ![c].pc = "closed", ![c].close = "done"] /\ mailLock' = Free
    /\ UNCHANGED <<mail, others, nodeSlots, tooLate>>

(************************************ a request *************************************)
MailGoes(q, pc) == mail' = [mail EXCEPT ![q].pc = pc]
Returned(q) == [mail[q] EXCEPT !.pc = "done", !.share = FALSE, !.slot = FALSE]
Returns(q) == mail' = [mail EXCEPT ![q] = Returned(q)] /\ nodeSlots' = IF mail[q].slot THEN nodeSlots - 1 ELSE nodeSlots

\* handle: let in unless closing; refused, the request is as if it had not come.
HandleMail(q, c, post) ==
    /\ mail[q] = NoMail /\ channel[c].pc = "open" /\ channel[c].serving /\ channel[c].revoke # "done"
    /\ ~channel[c].closing /\ channel[c].life
    /\ mail' = [mail EXCEPT ![q] = [NoMail EXCEPT !.pc = "in", !.ch = c, !.post = post]]
    /\ UNCHANGED <<chanVars, others, nodeSlots, tooLate>>

\* ServeHTTP: the route is refused, or the relay is revoked or full, or the request is in flight.
EnterRelay(q) ==
    /\ mail[q].pc = "in"
    /\ \/ Returns(q)
       \/ /\ ~channel[mail[q].ch].revoked
          /\ Cardinality({x \in Mails : mail[x].ch = mail[q].ch /\ mail[x].pc \notin {"in", "done"}}) < MaxMailInflight
          /\ MailGoes(q, "body") /\ UNCHANGED nodeSlots
    /\ UNCHANGED <<chanVars, others, tooLate>>

\* Its body is read, bounded and encoded anew; the guest's share of slots is taken, never awaited.
ReadBody(q) ==
    /\ mail[q].pc = "body"
    /\ \/ Returns(q)
       \/ /\ Cardinality({x \in Mails : mail[x].ch = mail[q].ch /\ mail[x].share}) < GuestSlots
          /\ mail' = [mail EXCEPT ![q].pc = "share", ![q].share = TRUE] /\ UNCHANGED nodeSlots
    /\ UNCHANGED <<chanVars, others, tooLate>>
TakeSlot(q) ==
    /\ mail[q].pc = "share"
    /\ IF nodeSlots = NodeSlots THEN Returns(q)
       ELSE mail' = [mail EXCEPT ![q].pc = "slot", ![q].slot = TRUE] /\ nodeSlots' = nodeSlots + 1
    /\ UNCHANGED <<chanVars, others, tooLate>>

\* A write takes a token, or is refused and gives its slot back.
TakeToken(q) ==
    /\ mail[q].pc = "slot"
    /\ LET c == mail[q].ch
       IN IF mail[q].post /\ channel[c].tokens = 0 THEN Returns(q) /\ UNCHANGED channel
          ELSE /\ channel' = [channel EXCEPT ![c].tokens = IF mail[q].post THEN @ - 1 ELSE @]
               /\ MailGoes(q, "send") /\ UNCHANGED nodeSlots
    /\ UNCHANGED <<mailLock, socket, receipts, others, tooLate>>
Refill(c) ==
    /\ channel[c].pc = "open" /\ channel[c].tokens < WriteTokens /\ channel' = [channel EXCEPT ![c].tokens = @ + 1]
    /\ UNCHANGED <<mailLock, socket, receipts, mail, others, nodeSlots, tooLate>>

\* client.Do: a cancelled request is not sent; one that is sent may end at any time.
SendUp(q) ==
    /\ mail[q].pc = "send"
    /\ \/ Returns(q) /\ UNCHANGED tooLate
       \/ /\ ~mail[q].cancelled /\ MailGoes(q, "up") /\ UNCHANGED nodeSlots
          /\ tooLate' = IF channel[mail[q].ch].revoked THEN tooLate \cup {q} ELSE tooLate
    /\ UNCHANGED <<chanVars, others>>
ReadAnswer(q) ==
    /\ mail[q].pc = "up"
    /\ \/ Returns(q)
       \/ mail' = [mail EXCEPT ![q].pc = "reply", ![q].slot = FALSE] /\ nodeSlots' = nodeSlots - 1
    /\ UNCHANGED <<chanVars, others, tooLate>>

\* The answer goes to a guest that may be slow, or is withheld after a revocation.
ReplyMail(q) ==
    /\ mail[q].pc = "reply" /\ Returns(q)
    /\ UNCHANGED <<chanVars, others, tooLate>>

OtherRelay ==
    /\ \/ nodeSlots < NodeSlots /\ others' = others + 1 /\ nodeSlots' = nodeSlots + 1
       \/ others > 0 /\ others' = others - 1 /\ nodeSlots' = nodeSlots - 1
    /\ UNCHANGED <<chanVars, mail, tooLate>>

MailNext ==
    \/ PathReplaced \/ Inspected \/ OtherRelay
    \/ \E c \in Channels :
         \/ OpenMail(c) \/ Listen(c) \/ Ready(c) \/ OpenFails(c) \/ LifeEnds(c) \/ Revoke(c) \/ RelayRevoke(c) \/ ServerClose(c)
         \/ ServeEnds(c) \/ Close(c) \/ CloseTimesOut(c) \/ CloseFinishes(c) \/ Refill(c)
    \/ \E q \in Mails :
         \/ \E c \in Channels, post \in BOOLEAN : HandleMail(q, c, post)
         \/ EnterRelay(q) \/ ReadBody(q) \/ TakeSlot(q) \/ TakeToken(q) \/ SendUp(q) \/ ReadAnswer(q) \/ ReplyMail(q)

(********************************* properties ***************************************)
\* Nothing is sent to the mail service for a guest whose relay was revoked, however its request
\* raced the revocation; a channel whose closure is recorded ("transport_drained") has no request
\* left and no socket; one channel of the directory serves at a time; and no upstream slot is
\* lost or given back twice, whichever way a request ends.
MailEnds ==
    /\ tooLate = {}
    /\ \A c \in Channels : "closed" \in receipts[c] => Active(c) = {} /\ socket # c
    /\ Cardinality({c \in Channels : channel[c].serving}) <= 1
    /\ nodeSlots = others + Cardinality({q \in Mails : mail[q].slot})
=============================================================================
