------------------------------ MODULE MCWebhook ------------------------------
(* Small instances of Webhook for TLC. *)
EXTENDS Webhook

CONSTANTS t1, t2, t3, q1, q2

\* The suffix of the second rule and the empty texts do not count.
RulesMC == << [suffix |-> <<>>, cache |-> <<"nydus-cache">>],
              [suffix |-> <<"-nydus">>, cache |-> <<>>],
              [suffix |-> <<"-esgz">>, cache |-> <<>>] >>

Image(tag) == [name |-> <<"harbor/nginx">>, tag |-> tag, digest |-> <<>>]

\* An image and the target that its conversion pushes.
RefMC == {Image(<<"v1">>), Image(<<"v1", "-nydus">>)}

NoPush == [r \in Ref |-> 0]

MapMC == [r \in Ref |-> RuleMap(r)]

\* q1 names two images, q2 one.
ResourcesMC == [q \in Request |-> IF q = q1 THEN <<t1, t2>> ELSE <<t3>>]

\* q2 is an async request, q1 either.
InitMC == WebhookInit /\ mode[t3] = "async"
SpecMC == InitMC /\ [][WebhookNext]_webhookVars
=============================================================================
