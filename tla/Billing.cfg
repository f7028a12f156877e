CONSTANTS
    Organization = {"o1", "o2"}
    MaxCheckouts = 2
    MaxEvents = 2
    MaxDeliveries = 2
    MaxFaults = 2
SPECIFICATION BillingSpec
CHECK_DEADLOCK FALSE
INVARIANT PlanFollowsEvents
PROPERTIES CustomerIsFixed EventsAreAcknowledged
