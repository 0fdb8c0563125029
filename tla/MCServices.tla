----------------------------- MODULE MCServices -----------------------------
(***************************************************************************)
(* One run for the services of the server that share no state: a behaviour *)
(* is about one of them, and the others rest in one initial state.         *)
(***************************************************************************)
EXTENDS Webhooks, Presence, Resources, Auth, Providers, Docgen

VARIABLE part    \* the service this behaviour is about

servicesVars == <<part, webhookVars, presenceVars, accessVars, resourceVars, authVars, providerVars, docgenVars>>

AccessStarts ==
    LET owner == CHOOSE u \in Users : TRUE IN
    /\ members[OidcWorkspace][owner] = "org_admin"
    /\ part \notin {"access", "resources"} =>
         /\ orgAdmins = {owner}
         /\ \A ws \in Workspaces : wsStatus[ws] = "live" /\ members[ws][owner] # NoRole

ServicesInit ==
    /\ part \in {"webhooks", "presence", "access", "resources", "auth", "providers", "docgen"}
    /\ WebhookInit /\ (part = "webhooks" \/ \A e \in Endpoints : endpoint[e] = "on")
    /\ AccessInit /\ AccessStarts
    /\ ProviderInit /\ (part = "providers" \/ \A c \in Configs : configs[c] = NoConfig)
    /\ DocgenInit /\ (part = "docgen" \/ Versions = {})
    /\ PresenceInit /\ ResourceInit /\ AuthInit

ServicesNext ==
    /\ UNCHANGED part
    /\ \/ /\ part = "webhooks" /\ WebhookNext
          /\ UNCHANGED <<presenceVars, accessVars, resourceVars, authVars, providerVars, docgenVars>>
       \/ /\ part = "presence" /\ PresenceNext
          /\ UNCHANGED <<webhookVars, accessVars, resourceVars, authVars, providerVars, docgenVars>>
       \/ /\ part = "access" /\ AccessNext
          /\ UNCHANGED <<webhookVars, presenceVars, resourceVars, authVars, providerVars, docgenVars>>
       \/ /\ part = "resources" /\ ResourceNext
          /\ UNCHANGED <<webhookVars, presenceVars, authVars, providerVars, docgenVars>>
       \/ /\ part = "auth" /\ AuthNext
          /\ UNCHANGED <<webhookVars, presenceVars, accessVars, resourceVars, providerVars, docgenVars>>
       \/ /\ part = "providers" /\ ProviderNext
          /\ UNCHANGED <<webhookVars, presenceVars, accessVars, resourceVars, authVars, docgenVars>>
       \/ /\ part = "docgen" /\ DocgenNext
          /\ UNCHANGED <<webhookVars, presenceVars, accessVars, resourceVars, authVars, providerVars>>

\* WebhookFairness and PresenceFairness, each while the behaviour is about that service: so written, TLC asks
\* whether an action is enabled only there
ServicesFairness ==
    /\ WF_webhookVars(part = "webhooks" /\ EmitStep)
    /\ \A w \in Workers : WF_webhookVars(part = "webhooks" /\ WorkerStep(w))
    /\ \A c \in Tabs : /\ WF_presenceVars(part = "presence" /\ Connects(c))
                       /\ WF_presenceVars(part = "presence" /\ HearsClose(c))
                       /\ WF_presenceVars(part = "presence" /\ Sweep(c))
                       /\ WF_presenceVars(part = "presence" /\ Receives(c))
    /\ \A k \in Conns : WF_presenceVars(part = "presence" /\ ConnStep(k))
    /\ WF_presenceVars(part = "presence" /\ Redis) /\ WF_presenceVars(part = "presence" /\ Relay)

ServicesSpec == ServicesInit /\ [][ServicesNext]_servicesVars /\ ServicesFairness
=============================================================================
