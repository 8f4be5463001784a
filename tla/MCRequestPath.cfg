\* One environment, every kind of request, bodies with one fault, short pages.
CONSTANTS
    Deployments <- MCDeployments
    Calls <- MCCalls
    ObjectIds = {1, 2, 3}
    BundleOwners <- MCBundleOwners
    MaxResults = 2
SPECIFICATION Spec
INVARIANTS TypeOK RuleTextAsChecked AdmittedObjectsResolve OwnersStayInBounds AcceptedGroupsCanBeWritten ListingComplete ServedAsPermitted
PROPERTY RefusedForOwnFault
