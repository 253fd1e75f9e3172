SPECIFICATION Spec
CONSTANTS
    Headers <- MCHeaders
    Valid <- MCValid
    Default = "default"
    Handlers = {1, 2}
    Forms <- MCForms
    MaxProcesses = 1
    Asked = {"place_maker_order", "cancel_all_open_orders", "query_order"}
    InheritedConfirmation = TRUE
INVARIANTS CredentialsFitEnvironment TradesOnlyAsAuthorised OutcomesAreTrue
