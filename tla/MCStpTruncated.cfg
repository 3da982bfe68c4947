\* More live subscriptions than the page limit of the query.
SPECIFICATION Spec
CONSTANTS
  Kind = {"stp"}
  Local = {1, 2}
  SubForm = {"bare"}
  DocForm = {"urn"}
  Capacity <- MCCapacity
  PageLimit = 1
  MaxSubs <- MCMaxSubs
  MaxDocs <- MCMaxDocs
  MaxEdits <- MCMaxEdits
INVARIANTS
  DdsOnlyIsUnsubscribed
