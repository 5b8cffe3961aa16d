SPECIFICATION Spec
CONSTANTS
    None = None
    MaxEdits = 1
    MaxResets = 1
    Used = {"guests", "keystone", "filebeat", "host", "overcloud"}
INVARIANTS
    TypeOK
    AppliedUnlessOrphaned
PROPERTIES
    StartedFresh
