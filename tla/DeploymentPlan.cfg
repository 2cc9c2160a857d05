CONSTANTS
    Libraries <- MCLibraries
    Instances <- MCInstances
    LinksOf <- MCLinksOf
    BindsTo <- MCBindsTo
    Drafts <- MCDrafts
    Rewrites <- MCRewrites
    Calls <- MCCalls
    MaxNonce = 4
    MaxEdits = 2
SPECIFICATION Spec
INVARIANTS PlansStandOnTheirAuthority DeployedAsPlanned
CHECK_DEADLOCK FALSE
