\* A batch of four nodes; any commit may fail.
CONSTANT
    Members = {n1, n2, n3, n4}
SPECIFICATION FairBatchSpec
INVARIANT BatchTypeOK
INVARIANT SuccessAccountsForAll
PROPERTY FinalStays
PROPERTY BatchEnds
