----------------------------- MODULE Publishers -----------------------------
(***************************************************************************)
(* What the publishers of the outbox make of a group of messages           *)
(* (outbox/webhook, outbox/kafka, outbox/sns). A letter is what a          *)
(* publisher sees of a message:                                            *)
(*   prefix  the part of its destination before the first ':'              *)
(*   target  the rest: "none" (missing), "junk" (no http URL), "plain" (an *)
(*           http URL), "foreign" (a host that is not allowed) or "good"   *)
(*   header  "good", "broken" (empty key, line break, illegal attribute    *)
(*           name) or "reserved" (an "aws." or "amazon." name)             *)
(* A publisher tries every message of a group and joins the errors, so one *)
(* message it refuses fails a group whose other messages were sent.        *)
(***************************************************************************)

CONSTANT Policy   \* [https, allowlist, client, reserved]: options of the publishers

-----------------------------------------------------------------------------
(* Webhook. *)

extractURL(l) == l.target # "none"
hostAllowed(l) == l.target # "foreign"

validateURL(l) ==
  /\ l.target # "junk"
  /\ Policy.https => l.target # "plain"
  /\ Policy.allowlist => hostAllowed(l)

validateDestination(l) == extractURL(l) /\ validateURL(l)
validateHeaders(l) == l.header # "broken"

\* A request leaves only for a valid destination with valid headers.
sendMessage(l) == validateDestination(l) /\ validateHeaders(l)

-----------------------------------------------------------------------------
(* Kafka: a message is written if it names a topic; headers are passed on. *)

extractTopic(l) == l.target # "none"

-----------------------------------------------------------------------------
(* SNS: without a client nothing is published. *)

extractTopicARN(l) == l.target # "none"
validateAttributeName(l) == l.header # "broken"
isReservedAttribute(l) == l.header = "reserved"
messageAttributes(l) == validateAttributeName(l) /\ (isReservedAttribute(l) => Policy.reserved)
snsPublish(l) == Policy.client /\ extractTopicARN(l) /\ messageAttributes(l)

-----------------------------------------------------------------------------

\* The publisher of this prefix hands the letter to the network.
Sendable(l) ==
  CASE l.prefix = "webhook" -> sendMessage(l)
    [] l.prefix = "kafka" -> extractTopic(l)
    [] l.prefix = "sns" -> snsPublish(l)
    [] OTHER -> FALSE
=============================================================================
