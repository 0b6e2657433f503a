SPECIFICATION FairSpec
CONSTANTS
  Request = {r1}
  o1 = o1  o2 = o2  k1 = k1  k2 = k2  h1 = h1  h2 = h2  g1 = g1  t0 = t0  t1 = t1  route = route
  Org = {o1, o2}
  Key = {k1, k2}
  Route = {route}
  Webhook = {h1, h2}
  Guard = {g1}
  Text = {t0, t1}
  EmptyText = t0
  MaxVersions = 3
  MaxChoices = 2
  KeyOrg <- MCKeyOrg
  WebhookOrg <- MCWebhookOrg
  Configs <- MCConfigs
  Conversation <- MCConversation
  Workspace <- MCWorkspace
CHECK_DEADLOCK FALSE
INVARIANTS GuardedCall GuardedDelivery TenantIsolation AuditFaithful
PROPERTY EventuallyAnswered
