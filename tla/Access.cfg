SPECIFICATION Spec
CONSTANTS
    Files <- ThreeFiles
    EnvTexts <- EveryEnvText
    AdminVar = "MCP_ADMIN_TOKEN"
    Texts <- EveryCredential
    ApiKeys <- TwoKeys
    DatabasePassword <- postgres
INVARIANTS
    ServedWithCredential
    ValidKeyNeverRefused
    LoginAgreesWithLayer
    SettingsFit
