SPECIFICATION Spec
CONSTANTS
    UrlLexemes <- MCUrlLexemes
    MaxLexemes = 5
    Schemas <- MCSchemas
    UINT16 = 65536
    Beyond <- MCBeyond
INVARIANTS
    FieldsAreTheUrl
    ParsersAgree
CHECK_DEADLOCK FALSE
