\* Two offers, two providers of which one replaces the other, and a person who
\* may never answer.
CONSTANTS
    Transfers = {t1, t2}
    Providers = {o1, o2}
    QueueCap = 1
    None = None
SPECIFICATION FairSpec
INVARIANTS YesFromTheAttachedScreen
PROPERTIES QuestionIsAnswered PromptIsWithdrawn
\* Every provider attaches once and every transfer is asked about once.
CHECK_DEADLOCK FALSE
