SPECIFICATION Spec
CONSTANTS
    Topics <- MCTopics
    MaxClients = 2
    MaxUps = 2
    CodeWidth = 5
    BusinessIds <- MCBusinessIds
    Subscriptions <- MCSubscriptions
    Publications <- MCPublications
    Instants <- MCInstants
    MaxCalls = 2
INVARIANTS
    TypeOK
    FlagSettles
    CodeMatchesTime
PROPERTIES
    Resubscribes
\* The process ends.
CHECK_DEADLOCK FALSE
