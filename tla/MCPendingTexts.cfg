CONSTANTS
    Peers = {p1}
    Channels = {1, 2}
    Texts = {t1, t2}
    ChatLife = 1
    LetterLife = 2
SPECIFICATION Spec
INVARIANT TextsHaveOneFate
PROPERTIES KeysFreeTexts TextsSettle
CHECK_DEADLOCK FALSE
