-------------------------- MODULE MCWebhookDelivery --------------------------
EXTENDS WebhookDelivery, TLC

Symmetric == Permutations(Workers)
==============================================================================
