--------------------------- MODULE InboxRegistry ---------------------------
(***************************************************************************)
(* The mailboxes of src/src/inbox.{h,cpp} as operators on the registry, a  *)
(* function from the threads whose inbox exists to the messages waiting in *)
(* it, oldest first.  Every operator is one critical section of the code.  *)
(***************************************************************************)
EXTENDS Sequences

\* InboxRegistry::getInbox creates the inbox of a thread on first use.
GetInbox(inboxes, t) ==
    [u \in DOMAIN inboxes \cup {t} |->
        IF u \in DOMAIN inboxes THEN inboxes[u] ELSE <<>>]

\* Inbox::addMessage on the inbox of t, which exists.
AddMessage(inboxes, t, msg) == [inboxes EXCEPT ![t] = Append(@, msg)]

\* InboxRegistry::broadcast reaches the inboxes that exist at that moment,
\* but not the one of the sender.
Broadcast(inboxes, msg, from) ==
    [u \in DOMAIN inboxes |->
        IF u = from THEN inboxes[u] ELSE Append(inboxes[u], msg)]

\* Inbox::waitForMessage and Inbox::getMessage, once a message is there.
PopFront(inboxes, t) == [inboxes EXCEPT ![t] = Tail(@)]

\* Inbox::clear.
Clear(inboxes, t) == [inboxes EXCEPT ![t] = <<>>]
=============================================================================
