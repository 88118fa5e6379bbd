SPECIFICATION Spec
CONSTANTS
  PageOption = 2
  GameKeys <- Keys
  MaxItems = 5
  MaxMenus = 2
  MaxWire = 2
INVARIANTS TypeOK PageExists ScreenIsCurrent
PROPERTIES AnsweredOnce ChosenIsSeen
